---- MODULE Spec2Model ----
(***************************************************************************)
(* A model of llmos-cli: the per-file extraction pipeline of src/cli.py,   *)
(* the FQN builders, the signature and docstring extractors and the        *)
(* aggregation of records into repo_ir["components"].                      *)
(*                                                                         *)
(* Python str values are TLA+ strings (Len, \o, SubSeq, Head and Tail are  *)
(* applied to them); Python lists and insertion-ordered dicts are          *)
(* sequences; None is the string/record value named in each place.         *)
(***************************************************************************)
EXTENDS Naturals, Sequences, FiniteSets, TLC

VARIABLES
    LANG_CONFIG,     \* config.LANG_CONFIG: lang -> configuration (empty until loaded)
    LANG_MAP,        \* config.LANG_MAP: file extension -> language name
    repo_ir,         \* cli.repo_ir: languages_present and components
    pc,              \* position of main(): "start", "scan", "done", "exit", "crashed"
    todo,            \* files of the target tree that rglob has not yielded yet
    args,            \* the parsed command line: target, include_pyi, tree
    prev_output,     \* components written by the previous run over the same tree
    reran,           \* TRUE once the program was run a second time
    call,            \* SpecCalls, SpecPool: the call made
    result,          \* its return value
    env,             \* what the installation does: grammar load, parser set-up, queries
    parsers,         \* ast_utils.parsers: lang -> parser
    queries_compiled, \* ast_utils._queries_compiled: lang -> names of the compiled queries
    constructed,     \* number of parsers constructed and cached so far
    printed,         \* the diagnostic lines printed by the last step
    file_count,      \* main: files counted by the loop over the target tree
    threads          \* SpecThreads: thread -> its position inside _initialize_parser

vars == <<LANG_CONFIG, LANG_MAP, repo_ir, pc, todo, args, prev_output, reran, call, result,
          env, parsers, queries_compiled, constructed, printed, file_count, threads>>

-----------------------------------------------------------------------------
(* Python str and list primitives                                          *)

Ch(s, i) == SubSeq(s, i, i)

Last(seq) == seq[Len(seq)]

Front(seq) == SubSeq(seq, 1, Len(seq) - 1)

\* str.startswith(p)
StartsWith(s, p) == Len(p) <= Len(s) /\ SubSeq(s, 1, Len(p)) = p

\* str.endswith(p)
EndsWith(s, p) == Len(p) <= Len(s) /\ SubSeq(s, Len(s) - Len(p) + 1, Len(s)) = p

SepPositions(s, sep) == {i \in 1..Len(s) : Ch(s, i) = sep}

\* position of the k-th separator; 0 before the first, Len(s)+1 after the last
NthSep(s, sep, k) ==
    IF k = 0 THEN 0
    ELSE IF k > Cardinality(SepPositions(s, sep)) THEN Len(s) + 1
    ELSE CHOOSE i \in SepPositions(s, sep) :
            Cardinality({j \in SepPositions(s, sep) : j <= i}) = k

\* str.split(sep) for a one-character separator
Split(s, sep) ==
    [k \in 1..(Cardinality(SepPositions(s, sep)) + 1) |->
        SubSeq(s, NthSep(s, sep, k - 1) + 1, NthSep(s, sep, k) - 1)]

RECURSIVE Join(_, _)
\* sep.join(parts)
Join(parts, sep) ==
    IF Len(parts) = 0 THEN ""
    ELSE IF Len(parts) = 1 THEN parts[1]
    ELSE parts[1] \o sep \o Join(Tail(parts), sep)

RECURSIVE ReplaceChar(_, _, _)
\* str.replace(a, b) for a one-character a
ReplaceChar(s, a, b) ==
    IF Len(s) = 0 THEN ""
    ELSE (IF Head(s) = a THEN b ELSE Head(s)) \o ReplaceChar(Tail(s), a, b)

RECURSIVE ReplaceAll(_, _, _)
\* str.replace(pat, rep): leftmost non-overlapping occurrences, pat non-empty
ReplaceAll(s, pat, rep) ==
    IF Len(s) < Len(pat) THEN s
    ELSE IF StartsWith(s, pat)
         THEN rep \o ReplaceAll(SubSeq(s, Len(pat) + 1, Len(s)), pat, rep)
         ELSE Head(s) \o ReplaceAll(Tail(s), pat, rep)

NonEmpty(s) == Len(s) > 0

\* Path(s).parts of a relative POSIX path: empty and "." segments are dropped
PathParts(s) == SelectSeq(Split(s, "/"), LAMBDA p : Len(p) > 0 /\ p # ".")

\* index of the last "." of a file name, 0 if none
LastDot(name) ==
    IF SepPositions(name, ".") = {} THEN 0
    ELSE CHOOSE i \in SepPositions(name, ".") : \A j \in SepPositions(name, ".") : j <= i

\* PurePath.suffix: the last dot starts a suffix unless it leads or ends the name
PathSuffix(name) ==
    IF LastDot(name) > 1 /\ LastDot(name) < Len(name)
    THEN SubSeq(name, LastDot(name), Len(name)) ELSE ""

\* PurePath.stem
PathStem(name) ==
    IF LastDot(name) > 1 /\ LastDot(name) < Len(name)
    THEN SubSeq(name, 1, LastDot(name) - 1) ELSE name

\* PurePath.name
PathName(rel) == IF Len(PathParts(rel)) = 0 THEN "" ELSE Last(PathParts(rel))


UpperCase == "ABCDEFGHIJKLMNOPQRSTUVWXYZ"

LowerCase == "abcdefghijklmnopqrstuvwxyz"

RECURSIVE Lower(_)
\* str.lower() on ASCII text
Lower(s) ==
    IF Len(s) = 0 THEN ""
    ELSE (IF \E i \in 1..26 : Ch(UpperCase, i) = Head(s)
          THEN Ch(LowerCase, CHOOSE i \in 1..26 : Ch(UpperCase, i) = Head(s))
          ELSE Head(s)) \o Lower(Tail(s))

\* "needle in s" for strings
Contains(s, needle) ==
    \E i \in 1..(Len(s) + 1) : i + Len(needle) - 1 <= Len(s)
                               /\ SubSeq(s, i, i + Len(needle) - 1) = needle

\* None where the code holds an Optional[str]: a string no source text contains
None == "<None>"

\* Python truth value of an Optional[str]
Truthy(s) == s # None /\ Len(s) > 0

-----------------------------------------------------------------------------
(* config.py                                                               *)

\* the empty dict
EmptyDict == <<>>

\* LANG_CONFIG["python"] as load_language_configs builds it
PythonConfig ==
    [ language   |-> "python",
      queries    |-> {"functions", "classes", "docstring", "test_funcs"},
      node_types |-> ("func_def" :> "function_definition")
                     @@ ("class_def" :> "class_definition")
                     @@ ("identifier" :> "identifier")
                     @@ ("block" :> "block")
                     @@ ("string" :> "string")
                     @@ ("expression_statement" :> "expression_statement") ]

\* LANG_MAP at import time
InitialLangMap == (".py" :> "python")

IGNORE_DIRS ==
    { ".git", ".svn", ".hg", "target", "build", "dist", "node_modules",
      "venv", ".venv", "env", "__pycache__", ".pytest_cache",
      ".mypy_cache", ".ruff_cache", ".vscode", ".idea", "docs", "examples",
      "site-packages", "migrations" }

IGNORE_FILES ==
    { ".gitignore", "LICENSE", "MANIFEST.in", "requirements.txt", "setup.py",
      "setup.cfg", "Pipfile", "Pipfile.lock", "poetry.lock", "uv.lock",
      ".DS_Store", "pyproject.toml", "Cargo.toml", "Cargo.lock",
      "package.json", "go.mod" }

\* dict.get(key) on LANG_MAP: None for an unmapped extension
LangOf(extension) ==
    IF extension \in DOMAIN LANG_MAP THEN LANG_MAP[extension] ELSE None

-----------------------------------------------------------------------------
(* Syntax trees.  A node is what tree-sitter hands out: its type, whether  *)
(* it is named, the field it fills in its parent, its byte extent and its  *)
(* children.  Trees are laid out from descriptions (a leaf with its text,  *)
(* an inner node with its kids, a gap of text that is no node), so that    *)
(* the extents and the source bytes agree by construction.                 *)

NoNode == [type |-> "", named |-> FALSE, field |-> "",
           start_byte |-> 0, end_byte |-> 0, children |-> <<>>]

Tok(text) ==
    [type |-> text, named |-> FALSE, field |-> "", text |-> text, kids |-> <<>>, gap |-> FALSE]

Leaf(type, text) ==
    [type |-> type, named |-> TRUE, field |-> "", text |-> text, kids |-> <<>>, gap |-> FALSE]

Gap(text) ==
    [type |-> "", named |-> FALSE, field |-> "", text |-> text, kids |-> <<>>, gap |-> TRUE]

Inner(type, kids) ==
    [type |-> type, named |-> TRUE, field |-> "", text |-> "", kids |-> kids, gap |-> FALSE]

Field(name, d) == [d EXCEPT !.field = name]

RECURSIVE LayoutNode(_, _)
RECURSIVE LayoutKids(_, _)
LayoutNode(d, off) ==
    IF Len(d.kids) = 0
    THEN [ src  |-> d.text,
           node |-> [type |-> d.type, named |-> d.named, field |-> d.field,
                     start_byte |-> off, end_byte |-> off + Len(d.text),
                     children |-> <<>>] ]
    ELSE LET ks == LayoutKids(d.kids, off)
         IN [ src  |-> ks.src,
              node |-> [type |-> d.type, named |-> d.named, field |-> d.field,
                        start_byte |-> off, end_byte |-> off + Len(ks.src),
                        children |-> ks.nodes] ]

LayoutKids(kids, off) ==
    IF Len(kids) = 0 THEN [src |-> "", nodes |-> <<>>]
    ELSE IF kids[1].gap
         THEN LET r == LayoutKids(Tail(kids), off + Len(kids[1].text))
              IN [src |-> kids[1].text \o r.src, nodes |-> r.nodes]
         ELSE LET n == LayoutNode(kids[1], off)
                  r == LayoutKids(Tail(kids), n.node.end_byte)
              IN [src |-> n.src \o r.src, nodes |-> <<n.node>> \o r.nodes]

\* node.named_children
named_children(node) == SelectSeq(node.children, LAMBDA c : c.named)

\* node.start_point[0] / node.end_point[0]: the row of a byte offset
RowOf(content_bytes, offset) ==
    Cardinality(SepPositions(SubSeq(content_bytes, 1, offset), "\n"))

-----------------------------------------------------------------------------
(* ast_utils.py                                                            *)

\* Source bytes are written as strings: a character below 0x80 stands for
\* itself, "^" for the lead byte 0xC3 and "~" for the continuation byte 0xA9
\* of a two-byte character.  In decoded text "@" stands for that character
\* and "?" for U+FFFD.
LeadByte == "^"

ContinuationByte == "~"

IsAscii(bytes) ==
    \A i \in 1..Len(bytes) : Ch(bytes, i) \notin {LeadByte, ContinuationByte}

RECURSIVE DecodeFrom(_, _)
DecodeFrom(bytes, i) ==
    IF i > Len(bytes) THEN ""
    ELSE IF Ch(bytes, i) = LeadByte
    THEN IF i < Len(bytes) /\ Ch(bytes, i + 1) = ContinuationByte
         THEN "@" \o DecodeFrom(bytes, i + 2)
         ELSE "?" \o DecodeFrom(bytes, i + 1)
    ELSE IF Ch(bytes, i) = ContinuationByte
    THEN "?" \o DecodeFrom(bytes, i + 1)
    ELSE Ch(bytes, i) \o DecodeFrom(bytes, i + 1)

\* bytes.decode('utf-8', errors='replace')
decode(bytes) == IF IsAscii(bytes) THEN bytes ELSE DecodeFrom(bytes, 1)

\* content_bytes[start:end] for 0 <= start: both ends are clamped to the length
Slice(bytes, start, end) ==
    SubSeq(bytes, (IF start < Len(bytes) THEN start ELSE Len(bytes)) + 1,
                  IF end < Len(bytes) THEN end ELSE Len(bytes))

\* a variant that leaves the end of the extent to the slice
ValidExtentUnbounded(start_byte, end_byte, length) == start_byte < end_byte

\* ast_utils.py 70
valid_extent(start_byte, end_byte, length) ==
    start_byte < end_byte /\ end_byte <= length

\* get_node_text: None for no node, "" for an empty or out-of-range extent
get_node_text(node, content_bytes) ==
    IF node # NoNode
    THEN IF valid_extent(node.start_byte, node.end_byte, Len(content_bytes))
         THEN decode(Slice(content_bytes, node.start_byte, node.end_byte))
         ELSE ""
    ELSE None

\* get_lang_config_val(lang, "node_types", {})
node_types_map(lang) ==
    IF lang \notin DOMAIN LANG_CONFIG THEN EmptyDict
    ELSE LANG_CONFIG[lang].node_types

is_node_type(node, lang, type_key) ==
    /\ node # NoNode
    /\ type_key \in DOMAIN node_types_map(lang)
    /\ node.type = node_types_map(lang)[type_key]

\* find_child_by_field_name / Node.child_by_field_name
find_child_by_field_name(node, field_name) ==
    IF node = NoNode THEN NoNode
    ELSE IF \E i \in 1..Len(node.children) : node.children[i].field = field_name
         THEN node.children[CHOOSE i \in 1..Len(node.children) :
                                /\ node.children[i].field = field_name
                                /\ \A j \in 1..(i - 1) : node.children[j].field # field_name]
         ELSE NoNode

-----------------------------------------------------------------------------
(* cli.find_component_id_for_lib                                           *)

\* a variant that looks only at the suffixes the language map holds
KnownSuffixesOfMapOnly(lang_map) == DOMAIN lang_map

\* known_suffixes = tuple(LANG_MAP.keys()) + (".pyi",)
known_suffixes(lang_map) == DOMAIN lang_map \cup {".pyi"}

\* a variant that drops no sentinel segment
DropSentinelNever(parts, library_name) == parts

\* cli.py 45-49: a trailing __init__ / mod / lib segment is dropped, unless it is
\* the only segment and equals the library name
DropSentinel(parts, library_name) ==
    IF Last(parts) \in {"__init__", "mod", "lib"}
    THEN IF Len(parts) > 1 THEN Front(parts)
         ELSE IF Last(parts) # library_name THEN Front(parts)
         ELSE parts
    ELSE parts

\* the body of find_component_id_for_lib, the module's LANG_MAP being lang_map
component_id_with(lang_map, rel_path_str, library_name) ==
    LET parts0 == PathParts(rel_path_str)
        parts1 == IF Len(parts0) > 0
                     /\ \E sfx \in known_suffixes(lang_map) : EndsWith(Last(parts0), sfx)
                  THEN [parts0 EXCEPT ![Len(parts0)] = PathStem(@)]
                  ELSE parts0
        parts  == IF Len(parts1) > 0 THEN DropSentinel(parts1, library_name) ELSE parts1
    IN IF Len(parts) = 0 THEN library_name
       ELSE library_name \o "." \o Join(parts, ".")

find_component_id_for_lib(rel_path_str, library_name) ==
    component_id_with(LANG_MAP, rel_path_str, library_name)

-----------------------------------------------------------------------------
(* extract_python._build_python_fqn                                        *)

\* extract_python.py 17-23: the dotted module path of a file
base_module_path(file_rel_path) ==
    LET parts0 == Split(ReplaceChar(file_rel_path, "/", "."), ".")
        parts1 == IF Last(parts0) = "py" THEN Front(parts0) ELSE parts0
        parts2 == IF Len(parts1) > 0 /\ Last(parts1) = "__init__" THEN Front(parts1) ELSE parts1
    IN Join(SelectSeq(parts2, NonEmpty), ".")

\* parent_fqn is None or a string; None and "" are both "no parent"
build_python_fqn(file_rel_path, item_name, parent_fqn) ==
    IF Truthy(parent_fqn)
    THEN IF Len(base_module_path(file_rel_path)) > 0
            /\ StartsWith(parent_fqn, base_module_path(file_rel_path))
         THEN IF ~ EndsWith(parent_fqn, item_name)
              THEN parent_fqn \o "." \o item_name
              ELSE parent_fqn
         ELSE parent_fqn \o "." \o item_name
    ELSE IF Len(base_module_path(file_rel_path)) > 0
         THEN base_module_path(file_rel_path) \o "." \o item_name
         ELSE item_name

-----------------------------------------------------------------------------
(* extract_rust: the FQN of a top-level item (extract_rust.py 55-69, 129-138) *)

\* a variant that keeps the module-root file name as a segment
RsModulePathPartsKeepRoot(rel_path_str) ==
    LET parts0 == PathParts(rel_path_str)
    IN IF EndsWith(Last(parts0), ".rs")
       THEN [parts0 EXCEPT ![Len(parts0)] = SubSeq(@, 1, Len(@) - 3)]
       ELSE parts0

rs_module_path_parts(rel_path_str) ==
    LET parts0 == PathParts(rel_path_str)
    IN IF Last(parts0) = "mod.rs" \/ Last(parts0) = "lib.rs" THEN Front(parts0)
       ELSE IF EndsWith(Last(parts0), ".rs")
            THEN [parts0 EXCEPT ![Len(parts0)] = SubSeq(@, 1, Len(@) - 3)]
            ELSE parts0

rs_qualified_name(rel_path_str, name) ==
    LET fqn_parts == SelectSeq(rs_module_path_parts(rel_path_str),
                               LAMBDA part : Len(part) > 0 /\ part # "src")
    IN Join(fqn_parts \o <<name>>, "::")

-----------------------------------------------------------------------------
(* extract_python.extract_py_signature                                     *)

\* extract_python.py 56-87: the entry built for one named child of the parameter list
param_info(child, content_bytes) ==
    IF child.type = "identifier"
    THEN [name |-> get_node_text(child, content_bytes), type |-> "unknown", default_value |-> None]
    ELSE IF child.type = "typed_parameter"
    THEN LET by_field  == find_child_by_field_name(child, "name")
             name_node == IF by_field = NoNode /\ Len(child.children) > 0
                          THEN IF child.children[1].type = "identifier"
                               THEN child.children[1] ELSE NoNode
                          ELSE by_field
             type_node == find_child_by_field_name(child, "type")
         IN [ name |-> IF name_node # NoNode THEN get_node_text(name_node, content_bytes)
                       ELSE "_anon_",
              type |-> IF type_node # NoNode THEN get_node_text(type_node, content_bytes)
                       ELSE "unknown",
              default_value |-> None ]
    ELSE IF child.type = "default_parameter"
    THEN LET name_node  == find_child_by_field_name(child, "name")
             type_node  == find_child_by_field_name(child, "type")
             value_node == find_child_by_field_name(child, "value")
         IN [ name |-> IF name_node # NoNode THEN get_node_text(name_node, content_bytes)
                       ELSE "_anon_",
              type |-> IF type_node # NoNode THEN get_node_text(type_node, content_bytes)
                       ELSE "unknown",
              default_value |-> get_node_text(value_node, content_bytes) ]
    ELSE IF child.type = "list_splat_pattern" \/ child.type = "tuple_pattern"
    THEN LET name_node == IF Len(named_children(child)) > 0 THEN named_children(child)[1]
                          ELSE NoNode
         IN [ name |-> IF name_node # NoNode /\ name_node.type = "identifier"
                       THEN "*" \o get_node_text(name_node, content_bytes) ELSE "*args",
              type |-> "tuple", default_value |-> None ]
    ELSE IF child.type = "dictionary_splat_pattern"
    THEN LET name_node == IF Len(named_children(child)) > 0 THEN named_children(child)[1]
                          ELSE NoNode
         IN [ name |-> IF name_node # NoNode /\ name_node.type = "identifier"
                       THEN "**" \o get_node_text(name_node, content_bytes) ELSE "**kwargs",
              type |-> "dict", default_value |-> None ]
    ELSE IF child.type = "*"
    THEN [name |-> "*", type |-> "_marker_args_", default_value |-> None]
    ELSE IF child.type = "/"
    THEN [name |-> "/", type |-> "_marker_pos_only_", default_value |-> None]
    ELSE [name |-> "_unknown_", type |-> "unknown", default_value |-> None]

extract_py_signature(func_node, content_bytes) ==
    LET by_field        == find_child_by_field_name(func_node, "async")
        is_async_node   == IF by_field = NoNode /\ Len(func_node.children) > 0
                              /\ func_node.children[1].type = "async"
                           THEN func_node.children[1] ELSE by_field
        param_list_node == find_child_by_field_name(func_node, "parameters")
        infos           == IF param_list_node # NoNode
                           THEN [i \in 1..Len(named_children(param_list_node)) |->
                                    param_info(named_children(param_list_node)[i], content_bytes)]
                           ELSE <<>>
        return_type_node == find_child_by_field_name(func_node, "return_type")
    IN [ params      |-> SelectSeq(infos, LAMBDA info : info.name # "_unknown_"),
         return_type |-> IF return_type_node # NoNode
                            /\ Truthy(get_node_text(return_type_node, content_bytes))
                         THEN get_node_text(return_type_node, content_bytes)
                         ELSE "unknown",
         async       |-> is_async_node # NoNode ]

-----------------------------------------------------------------------------
(* textwrap.dedent and str.strip, as get_docstring_from_python_node uses them *)

IsSpace(c) == c \in {" ", "\t", "\n", "\r", "\f"}

RECURSIVE LStrip(_)
LStrip(s) == IF Len(s) > 0 /\ IsSpace(Head(s)) THEN LStrip(Tail(s)) ELSE s

RECURSIVE RStrip(_)
RStrip(s) == IF Len(s) > 0 /\ IsSpace(Ch(s, Len(s))) THEN RStrip(SubSeq(s, 1, Len(s) - 1)) ELSE s

\* str.strip()
Strip(s) == RStrip(LStrip(s))

RECURSIVE LeadingBlanks(_)
\* the run of spaces and tabs that starts a line
LeadingBlanks(line) ==
    IF Len(line) > 0 /\ Head(line) \in {" ", "\t"}
    THEN Head(line) \o LeadingBlanks(Tail(line)) ELSE ""

RECURSIVE CommonPrefix(_, _)
CommonPrefix(a, b) ==
    IF Len(a) > 0 /\ Len(b) > 0 /\ Head(a) = Head(b)
    THEN Head(a) \o CommonPrefix(Tail(a), Tail(b)) ELSE ""

RECURSIVE FoldCommonPrefix(_)
FoldCommonPrefix(indents) ==
    IF Len(indents) = 1 THEN indents[1]
    ELSE CommonPrefix(indents[1], FoldCommonPrefix(Tail(indents)))

\* textwrap.dedent: blank lines are emptied, the margin common to the other
\* lines is removed from each of them
Dedent(text) ==
    LET raw     == Split(text, "\n")
        lines   == [i \in 1..Len(raw) |->
                       IF LeadingBlanks(raw[i]) = raw[i] THEN "" ELSE raw[i]]
        indents == [i \in 1..Len(SelectSeq(lines, NonEmpty)) |->
                       LeadingBlanks(SelectSeq(lines, NonEmpty)[i])]
        margin  == IF Len(indents) = 0 THEN "" ELSE FoldCommonPrefix(indents)
    IN Join([i \in 1..Len(lines) |->
                IF Len(margin) > 0 /\ StartsWith(lines[i], margin)
                THEN SubSeq(lines[i], Len(margin) + 1, Len(lines[i]))
                ELSE lines[i]], "\n")

-----------------------------------------------------------------------------
(* ast_utils.get_docstring_from_python_node                                *)

\* the node types the loop over the string's children skips
QuoteTypes == {"\"\"\"", "'''", "\"", "'", "r\"", "r'", "u\"", "u'", "f\"", "f'"}

\* "".join of the text of the children that are no quote token
raw_docstring(string_node_container, content_bytes) ==
    LET kept == SelectSeq(string_node_container.children,
                          LAMBDA c : c.type \notin QuoteTypes
                                     /\ get_node_text(c, content_bytes) # None)
    IN Join([i \in 1..Len(kept) |-> get_node_text(kept[i], content_bytes)], "")

get_docstring_from_python_node(body_node, content_bytes) ==
    IF body_node = NoNode \/ ~ is_node_type(body_node, "python", "block")
       \/ Len(named_children(body_node)) = 0
    THEN None
    ELSE LET first_statement == named_children(body_node)[1]
         IN IF /\ is_node_type(first_statement, "python", "expression_statement")
               /\ Len(named_children(first_statement)) > 0
               /\ is_node_type(named_children(first_statement)[1], "python", "string")
            THEN LET raw == raw_docstring(named_children(first_statement)[1], content_bytes)
                 IN IF Len(raw) > 0 THEN Strip(Dedent(raw)) ELSE None
            ELSE None

-----------------------------------------------------------------------------
(* ast_utils.get_docstring_from_rust_node.  The item is the i-th child of  *)
(* its parent, so that its previous siblings can be walked.                *)

\* a variant that leaves a list in the order given
KeepOrder(seq) == seq

\* reversed(seq)
Reverse(seq) == [i \in 1..Len(seq) |-> seq[Len(seq) + 1 - i]]

\* str.lstrip('*')
RECURSIVE LStripStars(_)
LStripStars(s) == IF Len(s) > 0 /\ Head(s) = "*" THEN LStripStars(Tail(s)) ELSE s

\* ast_utils.py 178-180 / 203-204: the cleaned lines of a block comment
block_lines(comment_text) ==
    LET cleaned_block == Strip(SubSeq(comment_text, 4, Len(comment_text) - 2))
        lines == Split(cleaned_block, "\n")
    IN [k \in 1..Len(lines) |-> Strip(LStripStars(Strip(lines[k])))]

\* the lines one comment node adds, for the line marker and the block marker given
comment_doc_lines(node, content_bytes, line_marker, block_marker) ==
    IF ~ Truthy(get_node_text(node, content_bytes)) THEN <<>>
    ELSE IF node.type = "line_comment"
            /\ StartsWith(get_node_text(node, content_bytes), line_marker)
    THEN << Strip(SubSeq(get_node_text(node, content_bytes), 4,
                         Len(get_node_text(node, content_bytes)))) >>
    ELSE IF node.type = "block_comment"
            /\ StartsWith(get_node_text(node, content_bytes), block_marker)
            /\ EndsWith(get_node_text(node, content_bytes), "*/")
    THEN block_lines(get_node_text(node, content_bytes))
    ELSE <<>>

\* Node.prev_named_sibling of the i-th child of parent: its index, 0 for None
prev_named_sibling(parent, i) ==
    IF \E j \in 1..(i - 1) : parent.children[j].named
    THEN CHOOSE j \in 1..(i - 1) :
            /\ parent.children[j].named
            /\ \A k \in (j + 1)..(i - 1) : ~ parent.children[k].named
    ELSE 0

RECURSIVE temp_doc_lines(_, _, _)
\* ast_utils.py 169-182: the lines gathered walking back from the sibling at j
temp_doc_lines(parent, j, content_bytes) ==
    IF j = 0 THEN <<>>
    ELSE IF parent.children[j].type \notin {"line_comment", "block_comment"} THEN <<>>
    ELSE comment_doc_lines(parent.children[j], content_bytes, "///", "/**")
         \o temp_doc_lines(parent, prev_named_sibling(parent, j), content_bytes)

RECURSIVE inner_doc_lines(_, _)
\* ast_utils.py 196-208: the inner comments among the first named children
inner_doc_lines(kids, content_bytes) ==
    IF Len(kids) = 0 THEN <<>>
    ELSE IF kids[1].type \in {"line_comment", "block_comment"}
    THEN comment_doc_lines(kids[1], content_bytes, "//!", "/*!")
         \o inner_doc_lines(Tail(kids), content_bytes)
    ELSE IF kids[1].type \notin {"attribute_item", "{", "}"} THEN <<>>
    ELSE inner_doc_lines(Tail(kids), content_bytes)

\* doc_lines at ast_utils.py 211
rust_doc_lines(parent, i, content_bytes) ==
    Reverse(temp_doc_lines(parent, prev_named_sibling(parent, i), content_bytes))
    \o (IF parent.children[i].type \in {"struct_item", "enum_item"}
        THEN inner_doc_lines(named_children(parent.children[i]), content_bytes)
        ELSE <<>>)

get_docstring_from_rust_node(parent, i, content_bytes) ==
    IF Len(rust_doc_lines(parent, i, content_bytes)) = 0 THEN None
    ELSE Strip(Join(rust_doc_lines(parent, i, content_bytes), "\n"))

-----------------------------------------------------------------------------
(* extract_python: the records of one declaration.  A function that        *)
(* returns Optional[Dict] returns <<>> for None and <<record>> otherwise.  *)

LANG == "python"

extract_py_function_details(func_node, rel_path_str, content_bytes, parent_fqn) ==
    LET name_node == find_child_by_field_name(func_node, "name")
        func_name == get_node_text(name_node, content_bytes)
        body_node == find_child_by_field_name(func_node, "body")
    IN IF ~ Truthy(func_name) THEN <<>>
       ELSE << [ name           |-> func_name,
                 qualified_name |-> build_python_fqn(rel_path_str, func_name, parent_fqn),
                 source_file    |-> rel_path_str,
                 language       |-> LANG,
                 line_start     |-> RowOf(content_bytes, func_node.start_byte) + 1,
                 line_end       |-> RowOf(content_bytes, func_node.end_byte) + 1,
                 signature      |-> extract_py_signature(func_node, content_bytes),
                 docstring      |-> IF body_node # NoNode
                                    THEN get_docstring_from_python_node(body_node, content_bytes)
                                    ELSE None,
                 source_code    |-> get_node_text(func_node, content_bytes) ] >>

RECURSIVE Flatten(_)
\* the concatenation of a sequence of lists
Flatten(lists) == IF Len(lists) = 0 THEN <<>> ELSE lists[1] \o Flatten(Tail(lists))

\* a variant that gives up the methods of the class at the first nameless one
ClassMethodsUntilNameless(body_node, rel_path_str, content_bytes, qualified_name) ==
    IF body_node = NoNode THEN <<>>
    ELSE LET per_child == [i \in 1..Len(body_node.children) |->
                IF is_node_type(body_node.children[i], LANG, "func_def")
                THEN extract_py_function_details(body_node.children[i], rel_path_str,
                                                 content_bytes, qualified_name)
                ELSE <<>>]
         IN Flatten([i \in 1..Len(per_child) |->
                IF \E j \in 1..i : /\ is_node_type(body_node.children[j], LANG, "func_def")
                                   /\ per_child[j] = <<>>
                THEN <<>> ELSE per_child[i]])

\* extract_python.py 136-143: one record per method with a readable name
class_methods(body_node, rel_path_str, content_bytes, qualified_name) ==
    IF body_node = NoNode THEN <<>>
    ELSE Flatten([i \in 1..Len(body_node.children) |->
            IF is_node_type(body_node.children[i], LANG, "func_def")
            THEN extract_py_function_details(body_node.children[i], rel_path_str,
                                             content_bytes, qualified_name)
            ELSE <<>>])

\* extract_python.py 144-156: the class-level assignments whose target is an identifier
class_fields(body_node, content_bytes) ==
    IF body_node = NoNode THEN <<>>
    ELSE Flatten([i \in 1..Len(body_node.children) |->
            LET child == body_node.children[i]
                expression_child == IF Len(named_children(child)) > 0
                                    THEN named_children(child)[1] ELSE NoNode
                left_node == find_child_by_field_name(expression_child, "left")
            IN IF /\ ~ is_node_type(child, LANG, "func_def")
                  /\ is_node_type(child, LANG, "expression_statement")
                  /\ expression_child # NoNode
                  /\ is_node_type(expression_child, LANG, "assignment")
                  /\ Truthy(get_node_text(left_node, content_bytes))
                  /\ left_node.type = "identifier"
               THEN << [ name  |-> get_node_text(left_node, content_bytes),
                         type  |-> "unknown", scope |-> "class" ] >>
               ELSE <<>>])

\* extract_python.py 129-134
class_bases(superclasses_node, content_bytes) ==
    IF superclasses_node = NoNode THEN <<>>
    ELSE LET texts == [i \in 1..Len(named_children(superclasses_node)) |->
                          get_node_text(named_children(superclasses_node)[i], content_bytes)]
         IN SelectSeq(texts, Truthy)

extract_py_data_structure(class_node, rel_path_str, content_bytes, parent_fqn) ==
    LET name_node  == find_child_by_field_name(class_node, "name")
        class_name == get_node_text(name_node, content_bytes)
        body_node  == find_child_by_field_name(class_node, "body")
        qualified_name == build_python_fqn(rel_path_str, class_name, parent_fqn)
    IN IF ~ Truthy(class_name) THEN <<>>
       ELSE << [ name           |-> class_name,
                 qualified_name |-> qualified_name,
                 kind           |-> "class",
                 source_file    |-> rel_path_str,
                 language       |-> LANG,
                 line_start     |-> RowOf(content_bytes, class_node.start_byte) + 1,
                 line_end       |-> RowOf(content_bytes, class_node.end_byte) + 1,
                 docstring      |-> IF body_node # NoNode
                                    THEN get_docstring_from_python_node(body_node, content_bytes)
                                    ELSE None,
                 source_code    |-> get_node_text(class_node, content_bytes),
                 base_classes   |-> class_bases(find_child_by_field_name(class_node, "superclasses"),
                                                content_bytes),
                 fields         |-> class_fields(body_node, content_bytes),
                 methods        |-> class_methods(body_node, rel_path_str, content_bytes,
                                                  qualified_name) ] >>

\* returns a list: empty, or the one specification of the test function
extract_py_test_specifications(func_node, rel_path_str, content_bytes) ==
    LET name_node == find_child_by_field_name(func_node, "name")
        test_name == get_node_text(name_node, content_bytes)
        test_module_path == ReplaceAll(ReplaceChar(rel_path_str, "/", "."), ".py", "")
        qualified_name   == test_module_path \o "." \o test_name
    IN IF ~ Truthy(test_name) THEN <<>>
       ELSE << [ id             |-> qualified_name,
                 source_file    |-> rel_path_str,
                 scenario       |-> test_name,
                 qualified_name |-> qualified_name,
                 language       |-> LANG,
                 line_start     |-> RowOf(content_bytes, func_node.start_byte) + 1,
                 line_end       |-> RowOf(content_bytes, func_node.end_byte) + 1,
                 docstring      |-> get_docstring_from_python_node(
                                        find_child_by_field_name(func_node, "body"), content_bytes),
                 source_code    |-> get_node_text(func_node, content_bytes) ] >>

-----------------------------------------------------------------------------
(* Source files.  The trees are those tree-sitter-python produces for the  *)
(* text: module > function_definition | class_definition, with the fields  *)
(* name, parameters, return_type, body and superclasses.                   *)

RECURSIVE Interleave(_, _)
\* the descriptions separated by the separator items
Interleave(items, sep) ==
    IF Len(items) = 0 THEN <<>>
    ELSE IF Len(items) = 1 THEN <<items[1]>>
    ELSE <<items[1]>> \o sep \o Interleave(Tail(items), sep)

ParametersD(params) ==
    Field("parameters",
          Inner("parameters",
                <<Tok("(")>> \o Interleave(params, <<Tok(","), Gap(" ")>>) \o <<Tok(")")>>))

PassStmt == Leaf("pass_statement", "pass")

\* def name(params):\n    body
FuncDefD(name, params, body) ==
    Inner("function_definition",
          << Tok("def"), Gap(" "), Field("name", Leaf("identifier", name)),
             ParametersD(params), Tok(":"), Gap("\n    "),
             Field("body", Inner("block", Interleave(body, <<Gap("\n    ")>>))) >>)

\* class name:\n    members
ClassDefD(name, members) ==
    Inner("class_definition",
          << Tok("class"), Gap(" "), Field("name", Leaf("identifier", name)),
             Tok(":"), Gap("\n    "),
             Field("body", Inner("block", Interleave(members, <<Gap("\n    ")>>))) >>)

\* the root node of a file with these top-level statements, one per line
ModuleD(statements) == Inner("module", Interleave(statements, <<Gap("\n")>>))

SimpleFunc(name) == FuncDefD(name, <<>>, <<PassStmt>>)

\* the statement  name = 1
AssignD(name) ==
    Inner("expression_statement",
          << Inner("assignment",
                   << Field("left", Leaf("identifier", name)), Gap(" "), Tok("="), Gap(" "),
                      Field("right", Leaf("integer", "1")) >>) >>)

\* a function definition the parser recovered without a name node: def (): pass
NamelessFunc ==
    Inner("function_definition",
          << Tok("def"), Gap(" "), ParametersD(<<>>), Tok(":"), Gap(" "),
             Field("body", Inner("block", <<PassStmt>>)) >>)

\* the files a target tree is made of: path relative to the root, and tree
FileCatalogue ==
    << [rel |-> "sub/mod.py",
        tree |-> ModuleD(<<ClassDefD("Outer", <<FuncDefD("Foo", <<Leaf("identifier", "self")>>,
                                                         <<PassStmt>>)>>)>>)],
       [rel |-> "sub/__init__.py",
        tree |-> ModuleD(<<SimpleFunc("foo"), SimpleFunc("bar")>>)],
       [rel |-> "sub.py",
        tree |-> ModuleD(<<SimpleFunc("baz")>>)],
       [rel |-> "a.py",
        tree |-> ModuleD(<<SimpleFunc("a"), SimpleFunc("test_a")>>)],
       [rel |-> "lib.py",
        tree |-> ModuleD(<<ClassDefD("K", <<AssignD("x"), SimpleFunc("lib"), AssignD("y")>>)>>)],
       [rel |-> "__init__.py",
        tree |-> ModuleD(<<SimpleFunc("main")>>)],
       [rel |-> "stub.pyi",
        tree |-> ModuleD(<<SimpleFunc("s")>>)],
       [rel |-> "pkg/sub/mod.py",
        tree |-> ModuleD(<<ClassDefD("Outer", <<SimpleFunc("Foo")>>)>>)],
       [rel |-> "docs/conf.py",
        tree |-> ModuleD(<<SimpleFunc("setup")>>)],
       [rel |-> "setup.py",
        tree |-> ModuleD(<<SimpleFunc("build")>>)],
       [rel |-> "pkg/__init__.py",
        tree |-> ModuleD(<<>>)],
       [rel |-> "bad.py",
        tree |-> ModuleD(<<SimpleFunc("f1"), NamelessFunc, Leaf("ERROR", "def ("),
                           ClassDefD("C", <<SimpleFunc("m1"), SimpleFunc(""), SimpleFunc("m2")>>),
                           ClassDefD("", <<SimpleFunc("lost")>>),
                           SimpleFunc("f2")>>)],
       [rel |-> "locked.py",
        tree |-> ModuleD(<<SimpleFunc("hidden")>>)],
       [rel |-> "tests/check.py",
        tree |-> ModuleD(<<SimpleFunc("helper"),
                           ClassDefD("T", <<SimpleFunc("verify")>>)>>)],
       [rel |-> "boom.py",
        tree |-> ModuleD(<<SimpleFunc("first"), SimpleFunc("boom"), SimpleFunc("last")>>)] >>

\* the empty file and the malformed file of the catalogue
EmptyOrMalformed == {11, 12}

\* the files open() raises PermissionError for
Unreadable == {13}

\* the top-level node of a file at which an extractor raises ValueError,
\* 0 for none: the second declaration of boom.py
RaisesAt(f) == IF f = 15 THEN 2 ELSE 0

FileIds == 1..Len(FileCatalogue)

\* the library or repository names a run is given
Targets == {"pkg", "lib", "a"}

\* the most files a target tree holds
MaxFiles == 2

\* the bytes of a file and the root node parse_code returns for them
Parsed(f) == LayoutNode(FileCatalogue[f].tree, 0)

-----------------------------------------------------------------------------
(* config.load_language_configs and the parser pool of ast_utils.py.       *)
(* env says what the installation does: whether the python grammar loads   *)
(* ("ok"), get_language raises ("raises") or tree_sitter_languages cannot  *)
(* be imported ("missing"); whether setting up a Parser raises; and which  *)
(* queries fail to compile.                                                *)

\* the diagnostics of config.py, ast_utils.py and cli.py
ErrNotInstalled == "ERROR: tree-sitter-languages is not installed."

WarnPythonConfig == "Warning: Failed to load Python tree-sitter config"

ErrNoConfigs == "ERROR: No language configurations were successfully loaded. Exiting."

FatalInit == "FATAL: Failed to initialize language parsers"

WarnNoLanguage == "Warning: Language object not found in LANG_CONFIG. Skipping parser initialization."

ErrInitParser == "ERROR initializing parser"

WarnNoParser == "Warning: Parser for language not available or failed to initialize."

WarnCouldNotParse == "Warning: Could not parse. Skipping AST extraction."

ErrProcessingFile == "ERROR processing file"

WarnCompile(query_name) == "Warning: Failed to compile query " \o query_name

\* the queries of a language configuration in the order of its dict
QueryOrder == <<"functions", "classes", "docstring", "test_funcs">>

Envs == [grammar : {"ok", "raises", "missing"}, parser : {"ok", "raises"},
         bad_queries : SUBSET PythonConfig.queries]

\* config.py 33-70: LANG_CONFIG after load_language_configs
load_language_configs(e) ==
    IF e.grammar = "ok" THEN ("python" :> PythonConfig) ELSE EmptyDict

\* what load_language_configs prints
load_diagnostics(e) ==
    CASE e.grammar = "missing" -> <<ErrNotInstalled>>
      [] e.grammar = "raises"  -> <<WarnPythonConfig, ErrNoConfigs>>
      [] OTHER                 -> <<>>

\* a variant that takes a failed parser set-up for fatal as well
InitFatalOnAnyFailure(config, e) == config = EmptyDict \/ e.parser = "raises"

\* config.py 121-123, ast_utils.py 22-24, cli.py 157-160: the run exits when no
\* language configuration was loaded
init_fatal(config, e) == config = EmptyDict

NoParser == [lang |-> "", serial |-> 0]

\* the pool before a step prints anything
EmptyPool == [parsers |-> <<>>, queries |-> <<>>, constructed |-> 0, printed |-> <<>>]

Say(pool, line) == [pool EXCEPT !.printed = Append(@, line)]

\* a variant that sets a parser up on every call
NeedsInitializationAlways(pool_parsers, lang_name) == TRUE

\* ast_utils.py 31
needs_initialization(pool_parsers, lang_name) == lang_name \notin DOMAIN pool_parsers

\* a variant that gives up the queries of the language at the first failure
CompiledUntilFailure(config, lang_name, e) ==
    IF config[lang_name].queries \cap e.bad_queries = {} THEN config[lang_name].queries ELSE {}

\* ast_utils.py 42-47: the queries of the language that compile
compiled_queries(config, lang_name, e) == config[lang_name].queries \ e.bad_queries

\* ast_utils.py 46-47: one warning for each query that fails to compile
compile_warnings(config, lang_name, e) ==
    LET failed == SelectSeq(QueryOrder,
                            LAMBDA q : q \in config[lang_name].queries /\ q \in e.bad_queries)
    IN [k \in 1..Len(failed) |-> WarnCompile(failed[k])]

\* ast_utils.py 37-47: the parser is constructed and cached, then the queries compiled
construct(pool, config, lang_name, e) ==
    [ parsers     |-> (lang_name :> [lang |-> lang_name, serial |-> pool.constructed + 1])
                      @@ pool.parsers,
      queries     |-> (lang_name :> compiled_queries(config, lang_name, e)) @@ pool.queries,
      constructed |-> pool.constructed + 1,
      printed     |-> pool.printed \o compile_warnings(config, lang_name, e) ]

\* a variant that caches the failure: the language is entered with no parser
ConstructionFailedCached(pool, lang_name) ==
    [ parsers     |-> (lang_name :> NoParser) @@ pool.parsers,
      queries     |-> pool.queries,
      constructed |-> pool.constructed,
      printed     |-> Append(pool.printed, ErrInitParser) ]

\* ast_utils.py 48-50: Parser() or set_language raised before line 39, the
\* caches are as they were
construction_failed(pool, lang_name) == Say(pool, ErrInitParser)

\* _initialize_parser: the pool after the call and the parser returned
initialize_parser(pool, config, lang_name, e) ==
    IF ~ needs_initialization(pool.parsers, lang_name)
    THEN [pool |-> pool, parser |-> pool.parsers[lang_name]]
    ELSE IF lang_name \notin DOMAIN config
    THEN [pool |-> Say(pool, WarnNoLanguage), parser |-> NoParser]
    ELSE IF e.parser = "raises"
    THEN [pool |-> construction_failed(pool, lang_name), parser |-> NoParser]
    ELSE [pool   |-> construct(pool, config, lang_name, e),
          parser |-> construct(pool, config, lang_name, e).parsers[lang_name]]

\* ast_utils.py 26-27: one _initialize_parser call for each loaded language
initialize_parsers(pool, config, e) ==
    IF "python" \in DOMAIN config THEN initialize_parser(pool, config, "python", e).pool
    ELSE pool

\* ast_utils.py 60-64 after the on-the-fly initialization
parse_with(r, f) ==
    IF r.parser = NoParser
    THEN [pool |-> Say(r.pool, WarnNoParser), parser |-> NoParser, root_node |-> NoNode]
    ELSE [pool |-> r.pool, parser |-> r.parser, root_node |-> Parsed(f).node]

\* parse_code for the bytes of file f: the pool after the call, the parser
\* used and the root node returned (NoNode for None)
parse_code(pool, config, f, lang, e) ==
    IF lang \in DOMAIN pool.parsers
    THEN [pool |-> pool, parser |-> pool.parsers[lang], root_node |-> Parsed(f).node]
    ELSE parse_with(initialize_parser(pool, config, lang, e), f)

\* config.py 50-62: the captures of the match of a query at node n, if any.
\* Whether captures() applies the #match? predicate of test_funcs depends on
\* the installed binding, hence the flag.
node_captures(query_key, n, content_bytes, predicates) ==
    LET name == find_child_by_field_name(n, "name")
        has_identifier == name # NoNode /\ name.type = "identifier"
        strings == SelectSeq(named_children(n), LAMBDA c : c.type = "string")
    IN CASE query_key = "functions" /\ n.type = "function_definition" /\ has_identifier
              -> << [node |-> n, capture |-> "function.definition"],
                    [node |-> name, capture |-> "function.name"] >>
         [] query_key = "classes" /\ n.type = "class_definition" /\ has_identifier
              -> << [node |-> n, capture |-> "class.definition"],
                    [node |-> name, capture |-> "class.name"] >>
         [] /\ query_key = "test_funcs" /\ n.type = "function_definition" /\ has_identifier
            /\ (predicates => StartsWith(get_node_text(name, content_bytes), "test_"))
              -> << [node |-> n, capture |-> "function"],
                    [node |-> name, capture |-> "name"] >>
         [] query_key = "docstring" /\ n.type = "expression_statement"
              -> [k \in 1..Len(strings) |-> [node |-> strings[k], capture |-> "docstring"]]
         [] OTHER -> <<>>

RECURSIVE captures(_, _, _, _)
\* query.captures(node): the captures of the matches in the subtree, in
\* document order
captures(query_key, node, content_bytes, predicates) ==
    node_captures(query_key, node, content_bytes, predicates)
    \o Flatten([i \in 1..Len(node.children) |->
                    captures(query_key, node.children[i], content_bytes, predicates)])

\* _queries_compiled.get(lang, {})
lang_queries(pool_queries, lang) ==
    IF lang \in DOMAIN pool_queries THEN pool_queries[lang] ELSE {}

\* run_query(query_key, lang, node): [] when the query is not in the compiled
\* set of the language or there is no node
run_query(pool_queries, query_key, lang, node, content_bytes, predicates) ==
    IF query_key \in lang_queries(pool_queries, lang) /\ node # NoNode
    THEN captures(query_key, node, content_bytes, predicates)
    ELSE <<>>

-----------------------------------------------------------------------------
(* cli.process_file                                                        *)

\* the parts of the absolute path of a file: the root's, then the relative ones
file_path_parts(root_parts, rel) == root_parts \o PathParts(rel)

\* a variant that ignores files by their names only
IsIgnoredByNameOnly(rel) == PathName(rel) \in IGNORE_FILES

\* cli.py 57-58
is_ignored(rel) ==
    \/ \E i \in 1..Len(PathParts(rel)) : PathParts(rel)[i] \in IGNORE_DIRS
    \/ PathName(rel) \in IGNORE_FILES

\* cli.py 74-75
is_test_file(root_parts, rel) ==
    \/ Contains(Lower(PathName(rel)), "test")
    \/ \E i \in 1..Len(file_path_parts(root_parts, rel)) :
            Lower(file_path_parts(root_parts, rel)[i]) \in {"test", "tests"}

\* cli.py 90-95
new_component(component_id, lang) ==
    [ component_id        |-> component_id,
      component_type      |-> lang \o "_module",
      source_path         |-> ReplaceChar(component_id, ".", "/"),
      summary             |-> "Code component: " \o component_id,
      data_structures     |-> <<>>,
      functions           |-> <<>>,
      test_specifications |-> <<>> ]

HasComponent(components, component_id) ==
    \E i \in 1..Len(components) : components[i].component_id = component_id

\* cli.py 89-95: the dict gets a key at its end on first sight of the id
create_component(components, component_id, lang) ==
    IF HasComponent(components, component_id) THEN components
    ELSE Append(components, new_component(component_id, lang))

\* a variant that assigns the new lists instead of extending the old ones
ExtendComponentOverwrite(components, component_id, new_structs, new_funcs, new_tests) ==
    [i \in 1..Len(components) |->
        IF components[i].component_id = component_id
        THEN [components[i] EXCEPT !.data_structures = new_structs,
                                   !.functions = new_funcs,
                                   !.test_specifications = new_tests]
        ELSE components[i]]

\* cli.py 122-124
extend_component(components, component_id, new_structs, new_funcs, new_tests) ==
    [i \in 1..Len(components) |->
        IF components[i].component_id = component_id
        THEN [components[i] EXCEPT !.data_structures = @ \o new_structs,
                                   !.functions = @ \o new_funcs,
                                   !.test_specifications = @ \o new_tests]
        ELSE components[i]]

\* a variant that tells a test by the name of the function only
IsTestFuncByNameOnly(node, root_parts, rel_path_str, content_bytes) ==
    LET func_name_text == get_node_text(find_child_by_field_name(node, "name"), content_bytes)
    IN Truthy(func_name_text) /\ StartsWith(func_name_text, "test_")

\* cli.py 109-113: a function is a test when its file is, or when its name says so
is_test_func(node, root_parts, rel_path_str, content_bytes) ==
    \/ is_test_file(root_parts, rel_path_str)
    \/ LET func_name_text == get_node_text(find_child_by_field_name(node, "name"), content_bytes)
       IN Truthy(func_name_text) /\ StartsWith(func_name_text, "test_")

\* cli.py 103-120: the records one top-level node adds to the three new lists
node_records(node, root_parts, rel_path_str, content_bytes, lang, current_parent_fqn) ==
    IF is_node_type(node, lang, "class_def")
    THEN [structs |-> extract_py_data_structure(node, rel_path_str, content_bytes,
                                                current_parent_fqn),
          funcs |-> <<>>, tests |-> <<>>]
    ELSE IF is_node_type(node, lang, "func_def")
    THEN IF is_test_func(node, root_parts, rel_path_str, content_bytes)
         THEN [structs |-> <<>>, funcs |-> <<>>,
               tests |-> extract_py_test_specifications(node, rel_path_str, content_bytes)]
         ELSE [structs |-> <<>>, tests |-> <<>>,
               funcs |-> extract_py_function_details(node, rel_path_str, content_bytes,
                                                     current_parent_fqn)]
    ELSE [structs |-> <<>>, funcs |-> <<>>, tests |-> <<>>]

\* new_structs, new_funcs, new_tests after the loop: the per-node records in node order
collect(per_node) ==
    [ new_structs |-> Flatten([i \in 1..Len(per_node) |-> per_node[i].structs]),
      new_funcs   |-> Flatten([i \in 1..Len(per_node) |-> per_node[i].funcs]),
      new_tests   |-> Flatten([i \in 1..Len(per_node) |-> per_node[i].tests]) ]

\* cli.py 97-120
extracted(root_node, root_parts, rel_path_str, content_bytes, lang, target_name_for_fqn) ==
    collect([i \in 1..Len(root_node.children) |->
                node_records(root_node.children[i], root_parts, rel_path_str, content_bytes, lang,
                             find_component_id_for_lib(rel_path_str, target_name_for_fqn))])

\* cli.py 88-124: the component of the file is created on first sight and extended
upsert(ir, component_id, lang, new) ==
    [ languages_present |-> ir.languages_present \cup {lang},
      components |->
          extend_component(create_component(ir.components, component_id, lang),
                           component_id, new.new_structs, new.new_funcs, new.new_tests) ]

\* cli.py 62-124 for a file that is not ignored
process_path(ir, rel_path_str, parsed, lang, root_parts, target_name_for_fqn) ==
    IF lang = None \/ lang # "python" THEN ir
    ELSE upsert(ir, find_component_id_for_lib(rel_path_str, target_name_for_fqn), lang,
                extracted(parsed.node, root_parts, rel_path_str, parsed.src, lang,
                          target_name_for_fqn))

\* cli.py 78: the language is recorded before the file is read
with_language(ir, lang) == [ir EXCEPT !.languages_present = @ \cup {lang}]

\* a variant that takes every root node for a tree
NoTreeNever(root_node) == FALSE

\* cli.py 84: if not root_node
no_tree(root_node) == root_node = NoNode

\* a variant of the handler that catches no OSError
CatchesNoOSError(exception) == exception \in {"ValueError", "KeyError"}

\* cli.py 126: except Exception catches the exceptions of the try block
is_Exception(exception) == exception \in {"PermissionError", "ValueError", "KeyError"}

\* cli.py 80-82, 126-128: open() raises for the file
read_failure(ir, pool, lang) ==
    IF is_Exception("PermissionError")
    THEN [ir |-> with_language(ir, lang), pool |-> Say(pool, ErrProcessingFile), escaped |-> FALSE]
    ELSE [ir |-> with_language(ir, lang), pool |-> pool, escaped |-> TRUE]

\* a variant that has appended each record to the component as it was extracted
FailedExtractionKeepsPartial(ir, component_id, lang, new) == upsert(ir, component_id, lang, new)

\* cli.py 78-95: when the loop raises, the language was recorded and the
\* component created, and the lists of the loop are dropped with its frame
failed_extraction(ir, component_id, lang, new) ==
    [ languages_present |-> ir.languages_present \cup {lang},
      components        |-> create_component(ir.components, component_id, lang) ]

\* the root node with only the children the loop went through
\* before the one at which the extractor raises
before_failure(root_node, f) ==
    [root_node EXCEPT !.children = SubSeq(@, 1, RaisesAt(f) - 1)]

\* cli.py 97-128: an extractor raises in the loop over the nodes of file f
extraction_failure(ir, p, f, lang, root_parts, target_name_for_fqn) ==
    [ ir |-> failed_extraction(ir,
                 find_component_id_for_lib(FileCatalogue[f].rel, target_name_for_fqn), lang,
                 extracted(before_failure(p.root_node, f), root_parts, FileCatalogue[f].rel,
                           Parsed(f).src, lang, target_name_for_fqn)),
      pool |-> IF is_Exception("ValueError") THEN Say(p.pool, ErrProcessingFile) ELSE p.pool,
      escaped |-> ~ is_Exception("ValueError") ]

\* cli.py 83-124 for the outcome p of parse_code
after_parse(ir, p, f, lang, root_parts, target_name_for_fqn) ==
    IF no_tree(p.root_node)
    THEN [ir |-> with_language(ir, lang), pool |-> Say(p.pool, WarnCouldNotParse),
          escaped |-> FALSE]
    ELSE IF RaisesAt(f) > 0
    THEN extraction_failure(ir, p, f, lang, root_parts, target_name_for_fqn)
    ELSE [ir |-> process_path(ir, FileCatalogue[f].rel,
                              [node |-> p.root_node, src |-> Parsed(f).src],
                              lang, root_parts, target_name_for_fqn),
          pool |-> p.pool, escaped |-> FALSE]

\* cli.py 62-128 for a file that is not ignored
process_mapped(ir, pool, f, lang, root_parts, target_name_for_fqn) ==
    IF lang = None \/ lang # "python"
    THEN [ir |-> ir, pool |-> pool, escaped |-> FALSE]
    ELSE IF f \in Unreadable THEN read_failure(ir, pool, lang)
    ELSE after_parse(ir, parse_code(pool, LANG_CONFIG, f, lang, env), f, lang, root_parts,
                     target_name_for_fqn)

\* process_file(file_path, root_for_analysis, target_name_for_fqn): repo_ir and
\* the parser pool after the call, and whether an exception escaped it
process_file(ir, pool, f, root_parts, target_name_for_fqn) ==
    IF is_ignored(FileCatalogue[f].rel) THEN [ir |-> ir, pool |-> pool, escaped |-> FALSE]
    ELSE process_mapped(ir, pool, f, LangOf(Lower(PathSuffix(PathName(FileCatalogue[f].rel)))),
                        root_parts, target_name_for_fqn)

-----------------------------------------------------------------------------
(* cli.main, one run of the program                                        *)

\* the trees a run may be given: at most MaxFiles files of the catalogue
Trees == {t \in SUBSET FileIds : Cardinality(t) <= MaxFiles}

\* repo_ir at import time (cli.py 28-35)
InitialRepoIr == [languages_present |-> {}, components |-> <<>>]

\* the parts of the resolved root directory of the target
root_parts_of(target) == <<"/", "work", target>>

NoCall == [fn |-> "none"]

\* what the installations of a run do: all is well, a query does not compile,
\* the parser cannot be set up, the grammar does not load, or the package of
\* the grammars is missing
RunEnvs ==
    { [grammar |-> "ok", parser |-> "ok", bad_queries |-> {}],
      [grammar |-> "ok", parser |-> "ok", bad_queries |-> {"docstring"}],
      [grammar |-> "ok", parser |-> "raises", bad_queries |-> {}],
      [grammar |-> "raises", parser |-> "ok", bad_queries |-> {}],
      [grammar |-> "missing", parser |-> "ok", bad_queries |-> {}] }

\* the module state at import time
ImportState ==
    /\ LANG_CONFIG = EmptyDict
    /\ LANG_MAP = InitialLangMap
    /\ repo_ir = InitialRepoIr
    /\ parsers = <<>>
    /\ queries_compiled = <<>>
    /\ constructed = 0
    /\ printed = <<>>
    /\ file_count = 0

\* A run with a query that fails to compile is given at most one file, and
\* --include-pyi is given only for a tree that holds the .pyi file.
Init ==
    /\ threads = <<>>
    /\ ImportState
    /\ pc = "start"
    /\ todo = {}
    /\ args \in [target : Targets, include_pyi : BOOLEAN, tree : Trees]
    /\ env \in RunEnvs
    /\ (env.bad_queries # {} => Cardinality(args.tree) <= 1)
    /\ (args.include_pyi => 7 \in args.tree)
    /\ prev_output = <<>>
    /\ reran = FALSE
    /\ call = NoCall
    /\ result = None

\* the pool in its variables, nothing printed yet
CurrentPool ==
    [parsers |-> parsers, queries |-> queries_compiled, constructed |-> constructed,
     printed |-> <<>>]

PoolBecomes(pool) ==
    /\ parsers' = pool.parsers
    /\ queries_compiled' = pool.queries
    /\ constructed' = pool.constructed
    /\ printed' = pool.printed

\* cli.py 155-160 when no language configuration was loaded: the run exits
MainExit ==
    /\ pc = "start"
    /\ init_fatal(load_language_configs(env), env)
    /\ LANG_CONFIG' = load_language_configs(env)
    /\ printed' = load_diagnostics(env)
                  \o (IF env.grammar = "missing" THEN <<FatalInit>> ELSE <<>>)
    /\ pc' = "exit"
    /\ UNCHANGED <<threads, LANG_MAP, repo_ir, todo, args, prev_output, reran, call, result, env,
                   parsers, queries_compiled, constructed, file_count>>

\* cli.py 155-167, 258-262: the parsers are initialized, --include-pyi maps
\* ".pyi" to python, and the walk over the target tree begins
MainStart ==
    /\ pc = "start"
    /\ ~ init_fatal(load_language_configs(env), env)
    /\ LANG_CONFIG' = load_language_configs(env)
    /\ PoolBecomes(initialize_parsers(CurrentPool, load_language_configs(env), env))
    /\ LANG_MAP' = IF args.include_pyi THEN (".pyi" :> "python") @@ LANG_MAP ELSE LANG_MAP
    /\ todo' = args.tree
    /\ file_count' = 0
    /\ pc' = "scan"
    /\ UNCHANGED <<threads, repo_ir, args, prev_output, reran, call, result, env>>

FileDone(out) ==
    /\ repo_ir' = out.ir
    /\ PoolBecomes(out.pool)
    /\ pc' = IF out.escaped THEN "crashed" ELSE pc

\* cli.py 262-265: rglob yields the files in no particular order; each is
\* counted, then handed to process_file
ProcessFile ==
    /\ pc = "scan"
    /\ \E f \in todo :
        /\ FileDone(process_file(repo_ir, CurrentPool, f, root_parts_of(args.target),
                                 args.target))
        /\ todo' = todo \ {f}
    /\ file_count' = file_count + 1
    /\ UNCHANGED <<threads, LANG_CONFIG, LANG_MAP, args, prev_output, reran, call, result, env>>

\* cli.py 268-274: languages_present becomes the list ["python"] or [], and
\* components the list of the dict's values, in the dict's order
Finish ==
    /\ pc = "scan"
    /\ todo = {}
    /\ repo_ir' = [ languages_present |-> repo_ir.languages_present \cap {"python"},
                    components        |-> repo_ir.components ]
    /\ pc' = "done"
    /\ printed' = <<>>
    /\ UNCHANGED <<threads, LANG_CONFIG, LANG_MAP, todo, args, prev_output, reran, call, result, env,
                   parsers, queries_compiled, constructed, file_count>>

Next == MainExit \/ MainStart \/ ProcessFile \/ Finish

Spec == Init /\ [][Next]_vars

-----------------------------------------------------------------------------
(* The program run again on the same tree with the same command line: a    *)
(* new process, whose module state is that of import time.                 *)

Rerun ==
    /\ pc = "done"
    /\ ~ reran
    /\ prev_output' = repo_ir.components
    /\ reran' = TRUE
    /\ LANG_CONFIG' = EmptyDict
    /\ LANG_MAP' = InitialLangMap
    /\ repo_ir' = InitialRepoIr
    /\ parsers' = <<>>
    /\ queries_compiled' = <<>>
    /\ constructed' = 0
    /\ printed' = <<>>
    /\ file_count' = 0
    /\ pc' = "start"
    /\ todo' = {}
    /\ UNCHANGED <<threads, args, call, result, env>>

NextRerun == MainExit \/ MainStart \/ ProcessFile \/ Finish \/ Rerun

SpecRerun == Init /\ [][NextRerun]_vars

-----------------------------------------------------------------------------
(* The FQN builders, the signature extractor and the docstring extractor   *)
(* called on their own: the call is drawn from bounded sets of arguments,  *)
(* then applied.                                                           *)

\* the deepest directory nesting of a path argument
MaxDepth == 2

\* the longest parameter list
MaxParams == 4

DirNames == {"pkg", "sub", "src"}

DirSeqs == UNION {[1..n -> DirNames] : n \in 0..MaxDepth}

FileStems == {"__init__", "mod", "lib", "m", "a"}

LibraryNames == {"pkg", "lib", "a", "mod"}

\* the relative path made of the directories and the file name
PathOf(dirs, file_name) == Join(dirs \o <<file_name>>, "/")

ComponentIdCalls ==
    [fn : {"find_component_id_for_lib"}, dirs : DirSeqs, stem : FileStems,
     suffix : {".py", ".pyi"}, library_name : LibraryNames]

PythonFqnCalls ==
    [fn : {"build_python_fqn"}, dirs : DirSeqs, stem : FileStems, suffix : {".py"},
     item_name : {"Foo", "a", "Outer"},
     parent_fqn : {None, "pkg.sub.mod.Outer", "a.a", "a.m.K", "lib.K"}]

RsFqnCalls ==
    [fn : {"rs_qualified_name"}, dirs : DirSeqs, stem : FileStems, suffix : {".rs"},
     name : {"Foo", "bar"}]

\* the parameters a list is made of, as tree-sitter-python parses them:
\*   a | b: T | c=1 | b: T = 5 | *args | **kwargs | *
ParamCatalogue ==
    << Leaf("identifier", "a"),
       Inner("typed_parameter",
             <<Leaf("identifier", "b"), Tok(":"), Gap(" "), Field("type", Leaf("type", "T"))>>),
       Inner("default_parameter",
             <<Field("name", Leaf("identifier", "c")), Tok("="),
               Field("value", Leaf("integer", "1"))>>),
       Inner("typed_default_parameter",
             <<Field("name", Leaf("identifier", "b")), Tok(":"), Gap(" "),
               Field("type", Leaf("type", "T")), Gap(" "), Tok("="), Gap(" "),
               Field("value", Leaf("integer", "5"))>>),
       Inner("list_splat_pattern", <<Tok("*"), Leaf("identifier", "args")>>),
       Inner("dictionary_splat_pattern", <<Tok("**"), Leaf("identifier", "kwargs")>>),
       Leaf("keyword_separator", "*") >>

ParamLists == UNION {[1..n -> 1..Len(ParamCatalogue)] : n \in 0..MaxParams}

SignatureCalls == [fn : {"extract_py_signature"}, params : ParamLists]

\* a string literal as the two grammar builds in use parse it: the older one
\* aliases both delimiters to the anonymous node '"' and gives the text no node,
\* the newer one has the named nodes string_start, string_content, string_end
Anon(type, text) == [Tok(text) EXCEPT !.type = type]

StringD(grammar, open, content, close) ==
    IF grammar = "quote_alias"
    THEN Inner("string", <<Anon("\"", open), Gap(content), Anon("\"", close)>>)
    ELSE Inner("string", <<Leaf("string_start", open), Leaf("string_content", content),
                           Leaf("string_end", close)>>)

Grammars == {"quote_alias", "string_parts"}

\* the first statements of the bodies the docstring extractor is called on
FirstStatements(grammar) ==
    [ triple |-> Inner("expression_statement",
                       <<StringD(grammar, "\"\"\"", "\n    line one\n    line two\n    ",
                                 "\"\"\"")>>),
      single |-> Inner("expression_statement", <<StringD(grammar, "\"", "doc", "\"")>>),
      adjacent |-> Inner("expression_statement",
                         <<Inner("concatenated_string",
                                 <<StringD(grammar, "\"", "line one", "\""), Gap(" "),
                                   StringD(grammar, "\"", "line two", "\"")>>)>>),
      pass |-> PassStmt,
      number |-> Inner("expression_statement", <<Leaf("integer", "1")>>) ]

DocstringCalls ==
    [fn : {"get_docstring_from_python_node"}, grammar : Grammars,
     first : {"triple", "single", "adjacent", "pass", "number"}]

\* def f(): with the first statement, then pass
DocFunc(c) ==
    LayoutNode(FuncDefD("f", <<>>, <<FirstStatements(c.grammar)[c.first], PassStmt>>), 0)

SigFunc(c) ==
    LayoutNode(FuncDefD("f", [i \in 1..Len(c.params) |-> ParamCatalogue[c.params[i]]],
                        <<PassStmt>>), 0)

\* the longest run of doc comments before an item
MaxComments == 3

\* what a doc comment line holds after its marker
CommentTexts == {" a", " b", " c", ""}

CommentRuns == UNION {[1..n -> CommentTexts] : n \in 0..MaxComments}

\* what stands before the run: nothing, another item, a plain comment, a
\* block doc comment of one line or of two, a doc comment and then a plain one
RustDocCalls ==
    [fn : {"get_docstring_from_rust_node"},
     before : {"none", "item", "plain", "block", "block2", "doc_plain"},
     run : CommentRuns, item : {"function_item", "struct_item"}]

\* fn f() {}  or  struct S {}
RsItemD(type) ==
    IF type = "function_item"
    THEN Inner("function_item",
               <<Tok("fn"), Gap(" "), Field("name", Leaf("identifier", "f")),
                 Field("parameters", Inner("parameters", <<Tok("("), Tok(")")>>)), Gap(" "),
                 Field("body", Inner("block", <<Tok("{"), Tok("}")>>))>>)
    ELSE Inner("struct_item",
               <<Tok("struct"), Gap(" "), Field("name", Leaf("type_identifier", "S")), Gap(" "),
                 Field("body", Inner("field_declaration_list", <<Tok("{"), Tok("}")>>))>>)

RsBeforeD(before) ==
    CASE before = "item"  -> <<RsItemD("function_item"), Gap("\n")>>
      [] before = "plain" -> <<Leaf("line_comment", "// note"), Gap("\n")>>
      [] before = "block" -> <<Leaf("block_comment", "/** d */"), Gap("\n")>>
      [] before = "block2" -> <<Leaf("block_comment", "/** p\n * q */"), Gap("\n")>>
      [] before = "doc_plain" -> <<Leaf("line_comment", "/// x"), Gap("\n"),
                                   Leaf("line_comment", "// note"), Gap("\n")>>
      [] OTHER            -> <<>>

\* the source file of the call: what stands before, the run, the item
RsFile(c) ==
    LayoutNode(Inner("source_file",
                     RsBeforeD(c.before)
                     \o Flatten([k \in 1..Len(c.run) |->
                                   <<Leaf("line_comment", "///" \o c.run[k]), Gap("\n")>>])
                     \o <<RsItemD(c.item)>>), 0)

\* the largest byte offset of a node handed to get_node_text
MaxExtent == 5

\* source bytes: empty, plain, and with a two-byte character, a lead byte
\* without its continuation, a continuation byte on its own
TextContents == {"", "ab", "a^~b", "a^b", "~a"}

\* a node of these offsets: tree-sitter offsets are unsigned
NodeAt(start_byte, end_byte) ==
    [type |-> "identifier", named |-> TRUE, field |-> "",
     start_byte |-> start_byte, end_byte |-> end_byte, children |-> <<>>]

NodeTextCalls ==
    { [fn |-> "get_node_text", content_bytes |-> c, start_byte |-> a, end_byte |-> b] :
        c \in TextContents, a \in 0..MaxExtent, b \in 0..MaxExtent }

Calls == ComponentIdCalls \cup PythonFqnCalls \cup RsFqnCalls \cup SignatureCalls
         \cup DocstringCalls \cup RustDocCalls \cup NodeTextCalls

InitCalls ==
    /\ threads = <<>>
    /\ LANG_CONFIG = ("python" :> PythonConfig)
    /\ call \in Calls
    /\ LANG_MAP \in {InitialLangMap, (".pyi" :> "python") @@ InitialLangMap}
    /\ (call.fn # "find_component_id_for_lib" => LANG_MAP = InitialLangMap)
    /\ repo_ir = InitialRepoIr
    /\ pc = "call"
    /\ todo = {}
    /\ args = [target |-> "pkg", include_pyi |-> FALSE, tree |-> {}]
    /\ prev_output = <<>>
    /\ reran = FALSE
    /\ result = None
    /\ env = [grammar |-> "ok", parser |-> "ok", bad_queries |-> {}]
    /\ parsers = <<>>
    /\ queries_compiled = <<>>
    /\ constructed = 0
    /\ printed = <<>>
    /\ file_count = 0

Returns(value) ==
    /\ pc = "call"
    /\ pc' = "returned"
    /\ result' = value
    /\ UNCHANGED <<threads, LANG_CONFIG, LANG_MAP, repo_ir, todo, args, prev_output, reran, call,
                   env, parsers, queries_compiled, constructed, printed, file_count>>

CallFindComponentId ==
    /\ call.fn = "find_component_id_for_lib"
    /\ Returns(find_component_id_for_lib(PathOf(call.dirs, call.stem \o call.suffix),
                                         call.library_name))

CallBuildPythonFqn ==
    /\ call.fn = "build_python_fqn"
    /\ Returns(build_python_fqn(PathOf(call.dirs, call.stem \o call.suffix),
                                call.item_name, call.parent_fqn))

CallRsQualifiedName ==
    /\ call.fn = "rs_qualified_name"
    /\ Returns(rs_qualified_name(PathOf(call.dirs, call.stem \o call.suffix), call.name))

CallExtractPySignature ==
    /\ call.fn = "extract_py_signature"
    /\ Returns(extract_py_signature(SigFunc(call).node, SigFunc(call).src))

CallGetDocstring ==
    /\ call.fn = "get_docstring_from_python_node"
    /\ Returns(get_docstring_from_python_node(
                   find_child_by_field_name(DocFunc(call).node, "body"), DocFunc(call).src))

CallGetRustDocstring ==
    /\ call.fn = "get_docstring_from_rust_node"
    /\ Returns(get_docstring_from_rust_node(RsFile(call).node, Len(RsFile(call).node.children),
                                            RsFile(call).src))

CallGetNodeText ==
    /\ call.fn = "get_node_text"
    /\ Returns(get_node_text(NodeAt(call.start_byte, call.end_byte), call.content_bytes))

NextCalls ==
    \/ CallFindComponentId
    \/ CallBuildPythonFqn
    \/ CallRsQualifiedName
    \/ CallExtractPySignature
    \/ CallGetDocstring
    \/ CallGetRustDocstring
    \/ CallGetNodeText

SpecCalls == InitCalls /\ [][NextCalls]_vars

-----------------------------------------------------------------------------
(* The parser pool used on its own: _initialize_parser, parse_code and     *)
(* run_query called in any order, any number of times, in one process.     *)

\* the sets of queries that fail to compile: none, one, two, all
PoolBadQueries == {{}, {"docstring"}, {"functions", "classes"}, PythonConfig.queries}

\* the installations: the grammar loads; the parser may fail to be set up,
\* queries may fail to compile
PoolEnvs == {e \in Envs : e.grammar = "ok" /\ e.bad_queries \in PoolBadQueries}

\* python is configured, rust is not
PoolLangs == {"python", "rust"}

\* the files whose bytes are parsed and queried: a.py and bad.py
PoolFiles == {4, 12}

\* the keys run_query is asked for: the queries of python and one no
\* configuration holds
QueryKeys == PythonConfig.queries \cup {"imports"}

InitPool ==
    /\ threads = <<>>
    /\ LANG_CONFIG = ("python" :> PythonConfig)
    /\ LANG_MAP = InitialLangMap
    /\ env \in PoolEnvs
    /\ parsers = <<>>
    /\ queries_compiled = <<>>
    /\ constructed = 0
    /\ printed = <<>>
    /\ pc = "pool"
    /\ call = NoCall
    /\ result = None
    /\ repo_ir = InitialRepoIr
    /\ todo = {}
    /\ args = [target |-> "pkg", include_pyi |-> FALSE, tree |-> {}]
    /\ prev_output = <<>>
    /\ reran = FALSE
    /\ file_count = 0

PoolReturns(c, pool, value) ==
    /\ pc = "pool"
    /\ call' = c
    /\ PoolBecomes(pool)
    /\ result' = value
    /\ UNCHANGED <<threads, LANG_CONFIG, LANG_MAP, repo_ir, pc, todo, args, prev_output, reran, env,
                   file_count>>

InitializeParserReturns(c, r) == PoolReturns(c, r.pool, r.parser)

PoolInitializeParser ==
    \E lang \in PoolLangs :
        InitializeParserReturns([fn |-> "_initialize_parser", lang |-> lang],
                                initialize_parser(CurrentPool, LANG_CONFIG, lang, env))

ParseCodeReturns(c, r) ==
    PoolReturns(c, r.pool, [parser |-> r.parser, root_node |-> r.root_node])

PoolParseCode ==
    \E lang \in PoolLangs, f \in PoolFiles :
        ParseCodeReturns([fn |-> "parse_code", lang |-> lang, file |-> f],
                         parse_code(CurrentPool, LANG_CONFIG, f, lang, env))

\* the node handed to run_query: the root of a parsed file, or None
QueryNode(f, has_node) == IF has_node THEN Parsed(f).node ELSE NoNode

PoolRunQuery ==
    \E query_key \in QueryKeys, lang \in PoolLangs, f \in PoolFiles,
       has_node \in BOOLEAN, predicates \in BOOLEAN :
        PoolReturns([fn |-> "run_query", lang |-> lang, query_key |-> query_key,
                     file |-> f, has_node |-> has_node],
                    CurrentPool,
                    run_query(queries_compiled, query_key, lang, QueryNode(f, has_node),
                              Parsed(f).src, predicates))

NextPool == PoolInitializeParser \/ PoolParseCode \/ PoolRunQuery

SpecPool == InitPool /\ [][NextPool]_vars

\* What made the construction of the parser raise goes away while the
\* process runs: from then on Parser() and set_language succeed.
Recover ==
    /\ pc = "pool"
    /\ env.parser = "raises"
    /\ env' = [env EXCEPT !.parser = "recovered"]
    /\ UNCHANGED <<threads, LANG_CONFIG, LANG_MAP, repo_ir, pc, todo, args, prev_output, reran, call,
                   result, parsers, queries_compiled, constructed, printed, file_count>>

NextRetry == PoolInitializeParser \/ PoolParseCode \/ PoolRunQuery \/ Recover

SpecRetry == InitPool /\ [][NextRetry]_vars

-----------------------------------------------------------------------------
(* Aggregation into components (cli.process_file, cli.main)                *)

ListNames == {"data_structures", "functions", "test_specifications"}

IsPrefix(old, new) == Len(old) <= Len(new) /\ SubSeq(new, 1, Len(old)) = old

\* the records of one file are next to each other and in the order of their lines
InSourceOrder(list) ==
    \A i \in 1..Len(list) : \A j \in (i + 1)..Len(list) :
        list[i].source_file = list[j].source_file
        => /\ list[i].line_start < list[j].line_start
           /\ \A k \in i..j : list[k].source_file = list[i].source_file

\* every record of the list is one of a file that maps to the component id
KeyedBy(list, component_id, target) ==
    \A i \in 1..Len(list) :
        find_component_id_for_lib(list[i].source_file, target) = component_id

\* what one step may do to the components: the components seen so far keep their
\* place and their id, and each of their three lists is a prefix of the new one
AppendOnlyStep(old, new) ==
    /\ Len(old) <= Len(new)
    /\ \A i \in 1..Len(old) :
        /\ new[i].component_id = old[i].component_id
        /\ \A l \in ListNames : IsPrefix(old[i][l], new[i][l])

WellOrdered(components, target) ==
    \A i \in 1..Len(components) : \A l \in ListNames :
        /\ InSourceOrder(components[i][l])
        /\ KeyedBy(components[i][l], components[i].component_id, target)

\* C1: over every sequence of process_file calls of a run, no step removes,
\* reorders, overwrites or deduplicates a record: every list of every component
\* only grows at its end; the records of one file stand together in source
\* order, so those of a later file follow all those of the earlier files of
\* the component; and every record stands in the component its file maps to.
C1_AppendOnly ==
    [][ /\ AppendOnlyStep(repo_ir.components, repo_ir'.components)
        /\ WellOrdered(repo_ir'.components, args'.target) ]_vars

\* C1: foo and bar of sub/__init__.py, then baz of sub.py, in one function list
C1_TwoFilesOneComponent ==
    \E i \in 1..Len(repo_ir.components) :
        /\ Len(repo_ir.components[i].functions) = 3
        /\ repo_ir.components[i].functions[1].name = "foo"
        /\ repo_ir.components[i].functions[2].name = "bar"
        /\ repo_ir.components[i].functions[3].name = "baz"
        /\ repo_ir.components[i].functions[3].source_file = "sub.py"

\* the characters of the component ids, in code point order
CodePoints == "./0123456789ABCDEFGHIJKLMNOPQRSTUVWXYZ_abcdefghijklmnopqrstuvwxyz"

CodePoint(c) == CHOOSE i \in 1..Len(CodePoints) : Ch(CodePoints, i) = c

\* a < b for two str
StrLess(a, b) ==
    \E k \in 0..Len(a) :
        /\ k <= Len(b)
        /\ SubSeq(a, 1, k) = SubSeq(b, 1, k)
        /\ \/ k = Len(a) /\ k < Len(b)
           \/ k < Len(a) /\ k < Len(b) /\ CodePoint(Ch(a, k + 1)) < CodePoint(Ch(b, k + 1))

\* C2: in the final output the components stand in ascending order of
\* component_id, whatever the order in which the files were visited.
C2_OutputSortedById ==
    pc = "done" =>
        \A i \in 1..Len(repo_ir.components) : \A j \in (i + 1)..Len(repo_ir.components) :
            StrLess(repo_ir.components[i].component_id, repo_ir.components[j].component_id)

\* C3: a second run over the same tree with the same command line ends with
\* the components of the first run: same ids, same records, same order.
C3_RerunIdentical ==
    (reran /\ pc = "done") => repo_ir.components = prev_output

\* the relative paths find_component_id_for_lib is asked about
ProbePaths ==
    {"stub.pyi", "sub/mod.pyi", "x.pyi.py", "sub/mod.py"}

\* C4: find_component_id_for_lib depends on the relative path and the target
\* name only: in every reachable state, before and after files were processed
\* and whether or not --include-pyi has changed LANG_MAP, it returns for the
\* target of the run the id it returns at import time.
C4_ComponentIdPure ==
    \A p \in ProbePaths :
        find_component_id_for_lib(p, args.target) = component_id_with(InitialLangMap, p, args.target)

\* C4: --include-pyi has changed LANG_MAP and stub.pyi got its component
C4_PyiMappedAndProcessed ==
    /\ ".pyi" \in DOMAIN LANG_MAP
    /\ \E i \in 1..Len(repo_ir.components) :
        /\ repo_ir.components[i].component_id = args.target \o ".stub"
        /\ Len(repo_ir.components[i].functions) = 1

\* C5: with target name pkg, the structure Outer of the module pkg/sub/mod has
\* the qualified name pkg.sub.mod.Outer, and Foo inside it pkg.sub.mod.Outer.Foo.
C5_DotStyleFqn ==
    args.target = "pkg" =>
        \A i \in 1..Len(repo_ir.components) :
            \A k \in 1..Len(repo_ir.components[i].data_structures) :
                repo_ir.components[i].data_structures[k].source_file
                    \in {"pkg/sub/mod.py", "sub/mod.py"}
                => /\ repo_ir.components[i].data_structures[k].qualified_name
                        = "pkg.sub.mod.Outer"
                   /\ repo_ir.components[i].data_structures[k].methods[1].qualified_name
                        = "pkg.sub.mod.Outer.Foo"

-----------------------------------------------------------------------------
(* Qualified names (cli.find_component_id_for_lib, extract_python,         *)
(* extract_rust), signatures and docstrings                                *)

Returned(fn) == pc = "returned" /\ call.fn = fn

NotSrc(part) == part # "src"

Sentinels == {"__init__", "mod", "lib"}

CollapsedComponentId ==
    ( Returned("find_component_id_for_lib") /\ call.stem \in Sentinels )
    => result = Join(<<call.library_name>> \o call.dirs, ".")

\* the same, but for a sentinel file at the root that is named as the library
CollapsedComponentIdButAtRoot ==
    ( Returned("find_component_id_for_lib") /\ call.stem \in Sentinels )
    => result = IF call.dirs = <<>> /\ call.stem = call.library_name
                THEN call.library_name \o "." \o call.stem
                ELSE Join(<<call.library_name>> \o call.dirs, ".")

\* the base of a name built without a parent collapses for __init__.py
CollapsedPythonBase ==
    ( Returned("build_python_fqn") /\ call.stem = "__init__" /\ call.parent_fqn = None )
    => result = Join(call.dirs \o <<call.item_name>>, ".")

\* the module path of mod.rs and lib.rs collapses
CollapsedRsBase ==
    ( Returned("rs_qualified_name") /\ call.stem \in {"mod", "lib"} )
    => result = Join(SelectSeq(call.dirs, NotSrc) \o <<call.name>>, "::")

C8_ParentPlusName ==
    ( Returned("build_python_fqn") /\ Truthy(call.parent_fqn) )
    => result = call.parent_fqn \o "." \o call.item_name

\* C9: the parameter list (a, b: T = 5, *args, **kwargs) yields exactly four
\* entries in source order: a, b with the default value text 5, the variadic
\* positional args and the variadic keyword kwargs.
C9_FourEntries ==
    ( Returned("extract_py_signature") /\ call.params = <<1, 4, 5, 6>> )
    => /\ Len(result.params) = 4
       /\ result.params[1].name = "a"
       /\ result.params[2].name = "b"
       /\ result.params[2].default_value = "5"
       /\ result.params[3].name \in {"args", "*args"}
       /\ result.params[4].name \in {"kwargs", "**kwargs"}

\* C10: a body that starts with a string literal has the literal's text without
\* quotes, dedented and trimmed, as its docstring (adjacent literals
\* concatenated): the indented triple-quoted literal with the lines line one and
\* line two yields "line one\nline two"; a body that starts with anything else
\* has no docstring.
C10_LeadingStringDocstring ==
    Returned("get_docstring_from_python_node") =>
        result = CASE call.first = "triple"   -> "line one\nline two"
                   [] call.first = "single"   -> "doc"
                   [] call.first = "adjacent" -> "line oneline two"
                   [] OTHER                   -> None

-----------------------------------------------------------------------------
(* Documentation comments (ast_utils.get_docstring_from_rust_node)         *)

\* the lines the comments before an item should give, in source order
ExpectedDocLines(c) ==
    (CASE c.before = "block" -> <<"d">>
       [] c.before = "block2" -> <<"q", "p">>
       [] c.before = "doc_plain" -> <<"x">>
       [] OTHER -> <<>>)
    \o [k \in 1..Len(c.run) |-> Strip(c.run[k])]

-----------------------------------------------------------------------------
(* Failures: no parser, no tree, unreadable files, initialization          *)

\* process_file gets as far as reading and parsing the file
Mapped(f) ==
    /\ ~ is_ignored(FileCatalogue[f].rel)
    /\ LangOf(Lower(PathSuffix(PathName(FileCatalogue[f].rel)))) = "python"

\* the step is the process_file call for file f
Processes(f) == pc = "scan" /\ f \in todo /\ f \notin todo'

\* C12: while the pool has no parser for python, process_file skips every
\* python file: the step raises nothing, creates no component and appends no
\* record, and the run goes on to the next file until every file was counted.
C12_NoParserSkipsFile ==
    [][ (pc = "scan" /\ "python" \notin DOMAIN parsers)
        => /\ pc' \in {"scan", "done"}
           /\ repo_ir'.components = repo_ir.components
           /\ \A f \in todo : Processes(f) /\ Mapped(f) /\ f \notin Unreadable
                              => Last(printed') = WarnCouldNotParse
           /\ pc' = "done" => file_count' = Cardinality(args.tree) ]_vars

\* C12: a run over two python files without a parser has ended with no component
C12_RunEndedWithoutParser ==
    /\ pc = "done"
    /\ "python" \notin DOMAIN parsers
    /\ args.tree = {2, 3}
    /\ file_count = 2
    /\ repo_ir.components = <<>>

\* C13: for a file whose parse yields no tree, exactly one diagnostic line is
\* printed, those of the parser initialization, of parse_code and of
\* process_file counted together.
C13_OneDiagnosticPerParseFailure ==
    (Len(printed) > 0 /\ Last(printed) = WarnCouldNotParse) => Len(printed) = 1

\* C14: an empty or malformed python file yields no tree and is skipped: a
\* run over a tree of such files only ends without any component.
C14_EmptyOrMalformedSkipped ==
    (pc = "done" /\ args.tree \subseteq EmptyOrMalformed) => repo_ir.components = <<>>

\* the files main has handed to process_file so far
Processed == args.tree \ todo

\* the readable python files processed so far have their component
EveryFileProcessed ==
    \A f \in Processed :
        (Mapped(f) /\ f \notin Unreadable /\ "python" \in DOMAIN parsers)
        => HasComponent(repo_ir.components,
                        find_component_id_for_lib(FileCatalogue[f].rel, args.target))

\* C15: no exception raised while a file is read, parsed or extracted escapes
\* process_file: the failure is printed, the file is counted, and the loop goes
\* on until every file of the tree was counted and every other file processed.
C15_FailureStaysInFile ==
    /\ pc # "crashed"
    /\ pc \in {"scan", "done"}
       => /\ file_count = Cardinality(Processed)
          /\ EveryFileProcessed
    /\ (pc = "scan" /\ Processed = Unreadable)
       => printed = <<ErrProcessingFile>> /\ repo_ir.components = <<>>
    /\ pc = "done" => todo = {}

\* C15: a run over the unreadable file and sub.py has ended with baz extracted
C15_RunEndedAfterFailure ==
    /\ pc = "done"
    /\ args.tree = {3, 13}
    /\ file_count = 2
    /\ Len(repo_ir.components) = 1
    /\ repo_ir.components[1].functions[1].name = "baz"

\* C16: the run exits at initialization exactly when no language configuration
\* was loaded; with the python configuration loaded, a parser that cannot be
\* set up or a query that does not compile is reported and the run goes on.
C16_FatalIffNoConfig ==
    /\ pc = "exit" <=> (pc # "start" /\ LANG_CONFIG = EmptyDict)
    /\ (pc = "scan" /\ todo = args.tree /\ env.parser = "raises")
       => printed = <<ErrInitParser>> /\ parsers = <<>>
    /\ (pc = "scan" /\ todo = args.tree /\ env.parser = "ok" /\ env.bad_queries # {})
       => /\ "python" \in DOMAIN parsers
          /\ printed = [k \in 1..1 |-> WarnCompile("docstring")]

\* C16: a run whose parser could not be set up has gone on to its end
C16_RunWentOnWithoutParser ==
    /\ pc = "done"
    /\ env.parser = "raises"
    /\ LANG_CONFIG # EmptyDict
    /\ file_count = 2

-----------------------------------------------------------------------------
(* Declarations without a readable name                                    *)

\* the names of a list of records, in the order of the list
NamesOf(records) == [i \in 1..Len(records) |-> records[i].name]

\* every record of the list, and every method of it, has a non-empty name
AllNamed(records) == \A i \in 1..Len(records) : Truthy(records[i].name)

\* C20: a function, class or method whose name node is missing or has no
\* text adds no record and raises nothing, and its siblings are extracted in
\* source order: of bad.py the output holds the functions f1, f2 and the class
\* C with the methods m1, m2, and no record anywhere has an empty name.
C20_NamelessSkipped ==
    /\ pc # "crashed"
    /\ \A i \in 1..Len(repo_ir.components) :
        LET c == repo_ir.components[i]
        IN /\ AllNamed(c.functions) /\ AllNamed(c.data_structures)
           /\ \A k \in 1..Len(c.test_specifications) :
                    Truthy(c.test_specifications[k].scenario)
           /\ \A k \in 1..Len(c.data_structures) : AllNamed(c.data_structures[k].methods)
           /\ c.component_id = find_component_id_for_lib("bad.py", args.target)
              => /\ NamesOf(c.functions) = <<"f1", "f2">>
                 /\ NamesOf(c.data_structures) = <<"C">>
                 /\ NamesOf(c.data_structures[1].methods) = <<"m1", "m2">>
                 /\ c.test_specifications = <<>>

\* C20: bad.py, with its nameless function, class and method, was processed
C20_BadFileExtracted ==
    /\ pc = "done"
    /\ 12 \in args.tree
    /\ \E i \in 1..Len(repo_ir.components) :
        /\ repo_ir.components[i].component_id = find_component_id_for_lib("bad.py", args.target)
        /\ Len(repo_ir.components[i].functions) = 2

-----------------------------------------------------------------------------
(* The text of a node                                                      *)

\* what the byte at position i contributes to the text of the extent
\* [start, end): itself, the two-byte character at its lead byte, nothing at
\* the continuation byte of that character, U+FFFD for a byte left alone
TextAt(bytes, start, end, i) ==
    IF Ch(bytes, i) = LeadByte
    THEN IF i < end /\ Ch(bytes, i + 1) = ContinuationByte THEN "@" ELSE "?"
    ELSE IF Ch(bytes, i) = ContinuationByte
    THEN IF i > start + 1 /\ Ch(bytes, i - 1) = LeadByte THEN "" ELSE "?"
    ELSE Ch(bytes, i)

\* the bytes of [start, end) decoded position by position
DecodedExtent(bytes, start, end) ==
    Join([k \in 1..(end - start) |-> TextAt(bytes, start, end, start + k)], "")

\* C19: get_node_text returns the decoded bytes of [start, end) when
\* 0 <= start < end <= length, and the empty string when start = end, when
\* start > end or when end lies beyond the buffer.
C19_NodeTextOfExtent ==
    Returned("get_node_text")
    => IF /\ 0 <= call.start_byte
          /\ call.start_byte < call.end_byte
          /\ call.end_byte <= Len(call.content_bytes)
       THEN result = DecodedExtent(call.content_bytes, call.start_byte, call.end_byte)
       ELSE result = ""

\* C19: the extent [1, 3) of "a^~b" is the two-byte character
C19_TwoByteCharacterDecoded ==
    /\ Returned("get_node_text")
    /\ call.content_bytes = "a^~b"
    /\ call.start_byte = 1
    /\ call.end_byte = 3
    /\ result = "@"

-----------------------------------------------------------------------------
(* The caches of the parser pool                                           *)

\* C17: once a language has its parser, every later _initialize_parser or
\* parse_code call for it returns that same parser and leaves the parser cache
\* and the compiled-query cache as they were, no other call changes the entry
\* of the language, and no parser is constructed a second time.
C17_ConstructedOnce ==
    [][ \A l \in DOMAIN parsers :
          /\ l \in DOMAIN parsers' /\ parsers'[l] = parsers[l]
          /\ l \in DOMAIN queries_compiled' /\ queries_compiled'[l] = queries_compiled[l]
          /\ constructed' = Cardinality(DOMAIN parsers')
          /\ (call'.fn \in {"_initialize_parser", "parse_code"} /\ call'.lang = l)
             => /\ parsers' = parsers
                /\ queries_compiled' = queries_compiled
                /\ constructed' = constructed
                /\ call'.fn = "_initialize_parser" => result' = parsers[l]
                /\ call'.fn = "parse_code" => result'.parser = parsers[l] ]_vars

\* C17: parse_code has used the parser of an earlier call: with a query that
\* warns when it is compiled, this call printed nothing
C17_CachedParserReturned ==
    /\ call.fn = "parse_code"
    /\ call.lang = "python"
    /\ env.bad_queries = {"docstring"}
    /\ "python" \in DOMAIN parsers
    /\ printed = <<>>
    /\ result.parser = parsers["python"]
    /\ constructed = 1

\* C18: the queries that fail to compile are absent from the compiled set of
\* the language and all others are in it, the parser is cached all the same,
\* and run_query returns no match for a query that is not in the compiled set
\* or a language that has none.
C18_QueryFailureNonFatal ==
    /\ "python" \in DOMAIN parsers
       => /\ "python" \in DOMAIN queries_compiled
          /\ queries_compiled["python"] = PythonConfig.queries \ env.bad_queries
    /\ (call.fn \in {"_initialize_parser", "parse_code"} /\ call.lang = "python"
        /\ env.parser = "ok")
       => /\ "python" \in DOMAIN parsers
          /\ \A k \in 1..Len(printed) : \E q \in env.bad_queries : printed[k] = WarnCompile(q)
    /\ (call.fn = "run_query"
        /\ call.query_key \notin lang_queries(queries_compiled, call.lang))
       => result = <<>>

\* C18: with the docstring query failing to compile, the parser was cached,
\* the functions query gave its matches and the docstring query none
C18_OtherQueriesStillRun ==
    /\ env.bad_queries = {"docstring"}
    /\ env.parser = "ok"
    /\ "python" \in DOMAIN parsers
    /\ call.fn = "run_query"
    /\ call.lang = "python"
    /\ call.query_key = "functions"
    /\ call.has_node
    /\ Len(result) > 0

-----------------------------------------------------------------------------
(* Skipped declarations and the names of the records                       *)

\* C21: whenever a declaration is skipped because its name cannot be
\* resolved, a diagnostic line is printed for it: processing bad.py, with its
\* nameless function, class and method, prints at least one line.
C21_NameSkipDiagnosed ==
    (pc = "scan" /\ Processed = {12} /\ "python" \in DOMAIN parsers) => printed # <<>>

\* the records of a component with a qualified name: functions, structures,
\* the methods of the structures, test specifications
QualifiedNames(c) ==
    {c.functions[k].qualified_name : k \in 1..Len(c.functions)}
    \cup {c.data_structures[k].qualified_name : k \in 1..Len(c.data_structures)}
    \cup UNION {{c.data_structures[k].methods[m].qualified_name :
                    m \in 1..Len(c.data_structures[k].methods)} :
                k \in 1..Len(c.data_structures)}
    \cup {c.test_specifications[k].qualified_name : k \in 1..Len(c.test_specifications)}

\* C22: the qualified name of every record stored in a component begins with
\* the target name of the run, and the id of a test specification is its
\* qualified name.
C22_TargetPrefixed ==
    \A i \in 1..Len(repo_ir.components) :
        /\ \A q \in QualifiedNames(repo_ir.components[i]) : StartsWith(q, args.target \o ".")
        /\ \A k \in 1..Len(repo_ir.components[i].test_specifications) :
              repo_ir.components[i].test_specifications[k].id
                  = repo_ir.components[i].test_specifications[k].qualified_name

-----------------------------------------------------------------------------
(* The comments before a Rust item                                         *)

\* the docstring of a list of lines
DocOf(lines) == IF Len(lines) = 0 THEN None ELSE Strip(Join(lines, "\n"))

\* the trimmed texts of the run of /// comments of a call
RunLines(c) == [k \in 1..Len(c.run) |-> Strip(c.run[k])]

\* C24: the walk back over the comments before an item stops at the first
\* comment that is no documentation comment: with /// x, then // note, then the
\* run before the item, the docstring is that of the run alone.
C24_WalkStopsAtPlainComment ==
    (Returned("get_docstring_from_rust_node") /\ call.before = "doc_plain")
    => result = DocOf(RunLines(call))

\* C25: the lines of a block doc comment keep their order: with the block
\* comment of the lines p and q before the run, the docstring has p, then q,
\* then the lines of the run.
C25_BlockLinesInSourceOrder ==
    (Returned("get_docstring_from_rust_node") /\ call.before = "block2")
    => result = DocOf(<<"p", "q">> \o RunLines(call))

-----------------------------------------------------------------------------
(* The fields of a class                                                   *)

\* C26: the assignments of a class body whose left-hand side is a bare
\* identifier are the fields of the structure record, with scope class, in
\* source order: the class K of lib.py, with x = 1 and y = 1 in its body, has
\* the fields x and y.
C26_ClassAssignmentsAreFields ==
    \A i \in 1..Len(repo_ir.components) :
        \A k \in 1..Len(repo_ir.components[i].data_structures) :
            repo_ir.components[i].data_structures[k].source_file = "lib.py"
            => repo_ir.components[i].data_structures[k].fields
                 = << [name |-> "x", type |-> "unknown", scope |-> "class"],
                      [name |-> "y", type |-> "unknown", scope |-> "class"] >>

-----------------------------------------------------------------------------
(* Files process_file passes over                                          *)

\* docs/conf.py lies under an ignored directory, setup.py has an ignored
\* name, and stub.pyi has an extension that maps to no language unless
\* --include-pyi was given
PassedOver(f) == f = 9 \/ f = 10 \/ (f = 7 /\ ~ args.include_pyi)

\* C30: process_file on a file under an ignored directory, with an ignored
\* name or with an extension that does not map to python leaves the
\* components and languages_present as they were, whatever was processed before.
C30_PassedOverLeavesStore ==
    [][ \A f \in todo : (Processes(f) /\ PassedOver(f)) => repo_ir' = repo_ir ]_vars

\* C30: a run over docs/conf.py and setup.py, with a parser, has stored nothing
C30_OnlyPassedOverFiles ==
    /\ pc = "done"
    /\ args.tree = {9, 10}
    /\ "python" \in DOMAIN parsers
    /\ file_count = 2
    /\ repo_ir = InitialRepoIr

-----------------------------------------------------------------------------
(* Where the declarations of a file go                                     *)

\* The top-level declarations with a name of each file of the catalogue:
\* the functions that are no tests, the functions that are tests (by their
\* name, or because the file lies under tests/), and the classes.
TopLevel(f) ==
    CASE f = 1  -> [functions |-> <<>>, tests |-> <<>>, classes |-> <<"Outer">>]
      [] f = 2  -> [functions |-> <<"foo", "bar">>, tests |-> <<>>, classes |-> <<>>]
      [] f = 3  -> [functions |-> <<"baz">>, tests |-> <<>>, classes |-> <<>>]
      [] f = 4  -> [functions |-> <<"a">>, tests |-> <<"test_a">>, classes |-> <<>>]
      [] f = 5  -> [functions |-> <<>>, tests |-> <<>>, classes |-> <<"K">>]
      [] f = 6  -> [functions |-> <<"main">>, tests |-> <<>>, classes |-> <<>>]
      [] f = 7  -> [functions |-> <<"s">>, tests |-> <<>>, classes |-> <<>>]
      [] f = 8  -> [functions |-> <<>>, tests |-> <<>>, classes |-> <<"Outer">>]
      [] f = 12 -> [functions |-> <<"f1", "f2">>, tests |-> <<>>, classes |-> <<"C">>]
      [] f = 14 -> [functions |-> <<>>, tests |-> <<"helper">>, classes |-> <<"T">>]
      [] OTHER  -> [functions |-> <<>>, tests |-> <<>>, classes |-> <<>>]

\* the records of a list that come from the file
FromFile(records, rel) == SelectSeq(records, LAMBDA r : r.source_file = rel)

-----------------------------------------------------------------------------
(* An exception in the middle of a file                                    *)

\* the three lists of a component are empty
NoRecords(c) ==
    c.functions = <<>> /\ c.data_structures = <<>> /\ c.test_specifications = <<>>

\* C29: when an extractor raises at a declaration of a file, no record of
\* the file is appended, not even those of the declarations before it, and the
\* components of the files processed earlier are left as they were: the step
\* for boom.py only adds the component of the file, with empty lists.
C29_FailedFileAppendsNothing ==
    [][ (Processes(15) /\ "python" \in DOMAIN parsers)
        => /\ Len(repo_ir'.components) = Len(repo_ir.components) + 1
           /\ \A i \in 1..Len(repo_ir.components) :
                 repo_ir'.components[i] = repo_ir.components[i]
           /\ NoRecords(repo_ir'.components[Len(repo_ir'.components)])
           /\ printed' = <<ErrProcessingFile>>
           /\ pc' = "scan" ]_vars

\* C29: sub.py was processed, then boom.py: baz is stored, nothing of boom.py
C29_EarlierFileKept ==
    /\ pc = "done"
    /\ args.tree = {3, 15}
    /\ Len(repo_ir.components) = 2
    /\ NamesOf(repo_ir.components[1].functions) = <<"baz">>
    /\ NoRecords(repo_ir.components[2])

-----------------------------------------------------------------------------
(* A parser that could not be constructed                                  *)

\* the call of the step is _initialize_parser or parse_code for python
AsksForPython(c) == c.fn \in {"_initialize_parser", "parse_code"} /\ c.lang = "python"

\* C23: while the construction of the parser raises, every call for the
\* language tries again, reports the failure and leaves the language out of
\* both caches; once the construction succeeds, the next parse_code has the
\* parser, the compiled queries and a tree; and the compiled queries of a
\* language, once there, are never built again.
C23_FailureNotCached ==
    [][ /\ (env.parser = "raises" /\ env' = env /\ AsksForPython(call'))
           => /\ "python" \notin DOMAIN parsers'
              /\ "python" \notin DOMAIN queries_compiled'
              /\ Head(printed') = ErrInitParser
              /\ constructed' = constructed
              /\ call'.fn = "parse_code" => result'.root_node = NoNode
        /\ (env.parser = "recovered" /\ "python" \notin DOMAIN parsers
            /\ call'.fn = "parse_code" /\ call'.lang = "python")
           => /\ "python" \in DOMAIN parsers'
              /\ result'.parser = parsers'["python"]
              /\ result'.root_node # NoNode
              /\ queries_compiled'["python"] = PythonConfig.queries \ env.bad_queries
              /\ constructed' = constructed + 1
        /\ "python" \in DOMAIN queries_compiled
           => queries_compiled' = queries_compiled /\ constructed' = constructed ]_vars

\* C23: after failures, the parse_code that found the construction working
\* has built the parser and compiled the queries, warning of the one that fails
C23_RetrySucceeded ==
    /\ env.parser = "recovered"
    /\ env.bad_queries = {"docstring"}
    /\ call.fn = "parse_code"
    /\ call.lang = "python"
    /\ constructed = 1
    /\ Len(printed) = 1
    /\ result.root_node # NoNode
    /\ queries_compiled["python"] = {"functions", "classes", "test_funcs"}


-----------------------------------------------------------------------------
(* _initialize_parser entered by several threads of one process with no    *)
(* lock: the test of line 31, the construction of lines 37-39, the reset   *)
(* of line 42 and the compilation of lines 43-47 are separate steps that   *)
(* other threads may interleave with.                                       *)

MaxThreads == 2

Threads == 1..MaxThreads

\* the installations of the threaded runs: the parser can be set up
ThreadEnvs == {e \in PoolEnvs : e.parser = "ok"}

\* a thread that has not entered _initialize_parser yet
ThreadAtStart == [at |-> "start", parser |-> NoParser]

\* a variant that looks at the cache again before it constructs
ConstructOnceCached(pool, lang_name) ==
    IF lang_name \in DOMAIN pool.parsers THEN pool
    ELSE [pool EXCEPT !.parsers = (lang_name :> [lang |-> lang_name, serial |-> pool.constructed + 1])
                                  @@ pool.parsers,
                      !.constructed = pool.constructed + 1]

\* ast_utils.py 37-39: a parser is constructed and stored under the language,
\* whatever the cache holds by now
construct_and_cache(pool, lang_name) ==
    [pool EXCEPT !.parsers = (lang_name :> [lang |-> lang_name, serial |-> pool.constructed + 1])
                             @@ pool.parsers,
                 !.constructed = pool.constructed + 1]

\* ast_utils.py 42: the compiled queries of the language start over
reset_queries(pool, lang_name) ==
    [pool EXCEPT !.queries = (lang_name :> {}) @@ pool.queries]

\* ast_utils.py 43-47: the queries that compile are stored, the others warned about
compile_all(pool, config, lang_name, e) ==
    [pool EXCEPT !.queries = (lang_name :> compiled_queries(config, lang_name, e)) @@ pool.queries,
                 !.printed = pool.printed \o compile_warnings(config, lang_name, e)]

InitThreads ==
    /\ LANG_CONFIG = ("python" :> PythonConfig)
    /\ LANG_MAP = InitialLangMap
    /\ env \in ThreadEnvs
    /\ threads = [t \in Threads |-> ThreadAtStart]
    /\ parsers = <<>>
    /\ queries_compiled = <<>>
    /\ constructed = 0
    /\ printed = <<>>
    /\ pc = "threads"
    /\ call = NoCall
    /\ result = None
    /\ repo_ir = InitialRepoIr
    /\ todo = {}
    /\ args = [target |-> "pkg", include_pyi |-> FALSE, tree |-> {}]
    /\ prev_output = <<>>
    /\ reran = FALSE
    /\ file_count = 0

\* thread t moves to position at, holding parser; the pool becomes pool
ThreadSteps(t, at, parser, pool) ==
    /\ pc = "threads"
    /\ threads' = [threads EXCEPT ![t] = [at |-> at, parser |-> parser]]
    /\ PoolBecomes(pool)
    /\ UNCHANGED <<LANG_CONFIG, LANG_MAP, repo_ir, pc, todo, args, prev_output, reran, call,
                   result, env, file_count>>

\* ast_utils.py 31 and 51: the test of the cache; a thread that finds the
\* language returns the cached parser
ThreadCheck ==
    \E t \in Threads :
        /\ threads[t].at = "start"
        /\ IF needs_initialization(parsers, "python")
           THEN ThreadSteps(t, "absent", NoParser, CurrentPool)
           ELSE ThreadSteps(t, "returned", parsers["python"], CurrentPool)

\* ast_utils.py 37-39
ThreadConstruct ==
    \E t \in Threads :
        /\ threads[t].at = "absent"
        /\ ThreadSteps(t, "cached", construct_and_cache(CurrentPool, "python").parsers["python"],
                       construct_and_cache(CurrentPool, "python"))

\* ast_utils.py 42
ThreadReset ==
    \E t \in Threads :
        /\ threads[t].at = "cached"
        /\ ThreadSteps(t, "reset", threads[t].parser, reset_queries(CurrentPool, "python"))

\* ast_utils.py 43-47
ThreadCompile ==
    \E t \in Threads :
        /\ threads[t].at = "reset"
        /\ ThreadSteps(t, "compiled", threads[t].parser,
                       compile_all(CurrentPool, LANG_CONFIG, "python", env))

\* ast_utils.py 51: what the cache holds now is returned
ThreadReturn ==
    \E t \in Threads :
        /\ threads[t].at = "compiled"
        /\ ThreadSteps(t, "returned", parsers["python"], CurrentPool)

NextThreads == ThreadCheck \/ ThreadConstruct \/ ThreadReset \/ ThreadCompile \/ ThreadReturn

SpecThreads == InitThreads /\ [][NextThreads]_vars

\* the threads that went past the test of line 31 into the construction
Constructors == {t \in Threads : threads[t].at \in {"cached", "reset", "compiled"}}

\* C27: the test of line 31 and the store of line 39 are not one step. Every
\* thread that found the language absent constructs a parser of its own,
\* whatever was cached in between: the threads inside the construction hold
\* pairwise different parsers, and at least as many parsers were constructed
\* as threads are inside the construction.
C27_CheckThenSetNotAtomic ==
    pc = "threads" =>
        /\ \A t1, t2 \in Constructors :
              t1 # t2 => threads[t1].parser # threads[t2].parser
        /\ \A t \in Constructors : threads[t].parser.serial \in 1..constructed
        /\ constructed >= Cardinality(Constructors)
        /\ constructed <= MaxThreads

\* both threads found the language absent and each constructed a parser: two
\* parsers were constructed for one language
C27_BothConstructed ==
    /\ pc = "threads"
    /\ Constructors = Threads
    /\ constructed = MaxThreads
    /\ \A t \in Threads : threads[t].at = "compiled"

====
